---- MODULE Spec2Model ----
(***************************************************************************)
(* A model of the acnportal charging simulator core: the charging station  *)
(* (EVSE, FiniteRatesEVSE), the session (EV) it charges, and the event     *)
(* queue.                                                                  *)
(*                                                                         *)
(* Currents are integers in units of 1e-4 A (10000 units per ampere),      *)
(* so that 8.0009 A is 80009.  Energies are integers in units of           *)
(* 1e-4 A * V * min: the code's  rate * voltage / 1000 * (period / 60) kWh *)
(* is  rate * voltage * period  of these units (1 kWh = 6e8 units).        *)
(***************************************************************************)
EXTENDS Integers, Sequences, FiniteSets, TLC

VARIABLES evse, evs, err, op, queue, popped, nextId, qerr, net, call, sim, view, test, info

vars == <<evse, evs, err, op, queue, popped, nextId, qerr, net, call, sim, view, test, info>>
evseVars == <<evse, evs, err, op>>
queueVars == <<queue, popped, nextId, qerr>>
feasVars == <<net, call>>
simVars == <<sim, view>>
testVars == <<test>>
infoVars == <<info>>

(***************************************************************************)
(* Units and numeric helpers                                               *)
(***************************************************************************)
\* a amperes in units of 1e-4 A.
Amp(a) == a * 10000

Abs(x) == IF x < 0 THEN 0 - x ELSE x

\* float('inf'), the default max_rate of EVSE.__init__: above every pilot used.
Inf == 2000000000

\* None, the value of EVSE._ev when no EV is attached.
NoEV == 0

(***************************************************************************)
(* Battery (the class is not part of the sources at hand; modelled from    *)
(* the data model and component design of the specification).              *)
(***************************************************************************)
\* capacity and charge in energy units, max_power in 1e-4 A * V.
NewBattery(capacity, init_charge, max_power) ==
  [capacity |-> capacity, init_charge |-> init_charge,
   current_charge |-> init_charge, max_power |-> max_power,
   current_charging_power |-> 0]

\* The achievable rate: at most the pilot, the power ceiling and the headroom.
Battery_rate(b, pilot, voltage, period) ==
  LET byPower == IF pilot * voltage > b.max_power
                 THEN b.max_power \div voltage ELSE pilot
      headroom == b.capacity - b.current_charge
  IN IF byPower * voltage * period > headroom
     THEN headroom \div (voltage * period) ELSE byPower

Battery_charge(b, pilot, voltage, period) ==
  LET rate == Battery_rate(b, pilot, voltage, period)
  IN [rate |-> rate,
      battery |-> [b EXCEPT !.current_charge = @ + rate * voltage * period,
                            !.current_charging_power = rate * voltage]]

\* Battery.reset(): back to the charge it was constructed with.
Battery_reset(b) ==
  [b EXCEPT !.current_charge = b.init_charge, !.current_charging_power = 0]

(***************************************************************************)
(* EV                                                                      *)
(***************************************************************************)
\* None, the default of the argument estimated_departure of EV.__init__.
NoDeparture == -1

\* EV.__init__ with estimated_departure given (or NoDeparture).
NewEVWith(arrival, departure, requested_energy, station_id, session_id, battery, estimated_departure) ==
  [arrival |-> arrival, departure |-> departure,
   session_id |-> session_id, station_id |-> station_id,
   requested_energy |-> requested_energy,
   estimated_departure |->
     IF estimated_departure # NoDeparture THEN estimated_departure ELSE departure,
   battery |-> battery,
   energy_delivered |-> 0, current_charging_rate |-> 0]

\* EV.__init__ with estimated_departure left out.
NewEV(arrival, departure, requested_energy, station_id, session_id, battery) ==
  NewEVWith(arrival, departure, requested_energy, station_id, session_id,
            battery, NoDeparture)

\* charge as it would be if the energy were accumulated from the pilot
\* instead of the rate the battery returned.
EV_charge_body_PilotEnergy(ev, pilot, voltage, period) ==
  LET r == Battery_charge(ev.battery, pilot, voltage, period)
  IN [err |-> "none", rate |-> r.rate,
      ev |-> [ev EXCEPT !.battery = r.battery,
                        !.energy_delivered = @ + pilot * voltage * period,
                        !.current_charging_rate = r.rate]]

\* The body of EV.charge(pilot, voltage, period).
EV_charge_body(ev, pilot, voltage, period) ==
  LET r == Battery_charge(ev.battery, pilot, voltage, period)
  IN [err |-> "none", rate |-> r.rate,
      ev |-> [ev EXCEPT !.battery = r.battery,
                        !.energy_delivered = @ + r.rate * voltage * period,
                        !.current_charging_rate = r.rate]]

\* A call ev.charge(*args): the method takes exactly (pilot, voltage, period),
\* none with a default, so any other number of arguments raises TypeError
\* before the body runs.
EV_charge(ev, args) ==
  IF Len(args) = 3
  THEN EV_charge_body(ev, args[1], args[2], args[3])
  ELSE [err |-> "TypeError", rate |-> 0, ev |-> ev]

(***************************************************************************)
(* EVSE and FiniteRatesEVSE                                                *)
(***************************************************************************)
NewEVSE(station_id, max_rate, min_rate) ==
  [station_id |-> station_id, kind |-> "continuous", ev |-> NoEV,
   max_rate |-> max_rate, min_rate |-> min_rate, current_pilot |-> 0,
   allowable_rates |-> <<>>]

RECURSIVE SeqMax(_)
SeqMax(s) ==
  IF Len(s) = 1 THEN s[1]
  ELSE LET m == SeqMax(Tail(s)) IN IF s[1] >= m THEN s[1] ELSE m

NewFiniteRatesEVSE(station_id, allowable_rates) ==
  [NewEVSE(station_id, SeqMax(allowable_rates), 0)
     EXCEPT !.kind = "finite", !.allowable_rates = allowable_rates]

\* get_EVSE_by_type: BASIC, AeroVironment (0 and 6..32 A), ClipperCreek.
AVRates == <<Amp(0)>> \o [i \in 1..27 |-> Amp(i + 5)]

CCRates == <<Amp(0), Amp(8), Amp(16), Amp(24), Amp(32)>>

get_EVSE_by_type(station_id, evse_type) ==
  CASE evse_type = "BASIC" -> NewEVSE(station_id, Inf, 0)
    [] evse_type = "AeroVironment" -> NewFiniteRatesEVSE(station_id, AVRates)
    [] evse_type = "ClipperCreek" -> NewFiniteRatesEVSE(station_id, CCRates)

\* np.isclose(a, b, atol=1e-3) with numpy's default rtol = 1e-5:
\*   |a - b| <= atol + rtol * |b|.
\* For integers, (|a - b| - atol) * 1e5 <= |b| iff |a - b| - atol <= |b| div 1e5.
Atol == 10

RtolInv == 100000

IsClose(a, b) == Abs(a - b) - Atol <= Abs(b) \div RtolInv

\* EVSE._valid_rate and its override FiniteRatesEVSE._valid_rate.
valid_rate(st, pilot) ==
  IF st.kind = "finite"
  THEN \E i \in 1..Len(st.allowable_rates) : IsClose(pilot, st.allowable_rates[i])
  ELSE st.min_rate <= pilot /\ pilot <= st.max_rate

(***************************************************************************)
(* The population the operations are exercised on.                         *)
(***************************************************************************)
\* Number of EVs that exist (session ids 1..NumEVs).
NumEVs == 2

EVs == 1..NumEVs

\* TestCase.__init__ defaults: voltage=220, period=1.
Voltage == 220

Period == 1

FullRate == Amp(16)

\* The battery of every EV holds two periods of charge at FullRate.
Capacity == 2 * FullRate * Voltage * Period

FreshEV(e) ==
  NewEV(0, 2, Capacity, "PS-001", e,
        NewBattery(Capacity, 0, Amp(32) * Voltage))

\* The stations a run may start with: the three factory types, a continuous
\* station with a non-zero minimum, and a discrete one whose list omits 0.
InitialEVSEs ==
  { get_EVSE_by_type("PS-001", "BASIC"),
    get_EVSE_by_type("PS-001", "AeroVironment"),
    get_EVSE_by_type("PS-001", "ClipperCreek"),
    NewEVSE("PS-001", Amp(32), Amp(6)),
    NewFiniteRatesEVSE("PS-001", <<Amp(8), Amp(16), Amp(24), Amp(32)>>) }

\* Pilots offered to set_pilot: 0, exact rates, 8.0009 A and 8.1 A, 32.0012 A
\* and 32.0014 A (1.2e-3 and 1.4e-3 away from 32 A), and values out of range.
Pilots ==
  { 0, Amp(3), Amp(8), 80009, 81000, Amp(16), Amp(32), 320012, 320014,
    Amp(40) }

\* Pilots offered to a direct EV.charge.
ChargePilots == { FullRate }

OpRecord(name, arg) ==
  [name |-> name, arg |-> arg, prevEv |-> evse.ev,
   prevPilot |-> evse.current_pilot]

(***************************************************************************)
(* EVSE operations                                                         *)
(***************************************************************************)
\* set_pilot as it would be if the pilot were stored before it is validated.
SetPilot_AssignFirst(pilot) ==
  /\ op' = OpRecord("set_pilot", pilot)
  /\ evse' = [evse EXCEPT !.current_pilot = pilot]
  /\ IF valid_rate(evse, pilot)
     THEN IF evse.ev # NoEV
          THEN LET r == EV_charge(evs[evse.ev], <<pilot>>)
               IN /\ evs' = [evs EXCEPT ![evse.ev] = r.ev]
                  /\ err' = r.err
          ELSE /\ evs' = evs
               /\ err' = "none"
     ELSE /\ err' = "InvalidRateError"
          /\ evs' = evs
  /\ UNCHANGED <<queueVars, feasVars, simVars, testVars, infoVars>>

\* EVSE.set_pilot(pilot).  The attached EV is called as ev.charge(pilot).
SetPilot(pilot) ==
  /\ op' = OpRecord("set_pilot", pilot)
  /\ IF valid_rate(evse, pilot)
     THEN /\ evse' = [evse EXCEPT !.current_pilot = pilot]
          /\ IF evse.ev # NoEV
             THEN LET r == EV_charge(evs[evse.ev], <<pilot>>)
                  IN /\ evs' = [evs EXCEPT ![evse.ev] = r.ev]
                     /\ err' = r.err
             ELSE /\ evs' = evs
                  /\ err' = "none"
     ELSE /\ err' = "InvalidRateError"
          /\ UNCHANGED <<evse, evs>>
  /\ UNCHANGED <<queueVars, feasVars, simVars, testVars, infoVars>>

\* plugin as it would be without the occupancy test.
Plugin_Overwrite(e) ==
  /\ op' = OpRecord("plugin", e)
  /\ evse' = [evse EXCEPT !.ev = e]
  /\ err' = "none"
  /\ UNCHANGED evs
  /\ UNCHANGED <<queueVars, feasVars, simVars, testVars, infoVars>>

\* plugin as it would be if it compared the attached EV with the new one.
Plugin_SameEVAllowed(e) ==
  /\ op' = OpRecord("plugin", e)
  /\ IF evse.ev = NoEV \/ evse.ev = e
     THEN /\ evse' = [evse EXCEPT !.ev = e]
          /\ err' = "none"
     ELSE /\ err' = "StationOccupiedError"
          /\ evse' = evse
  /\ UNCHANGED evs
  /\ UNCHANGED <<queueVars, feasVars, simVars, testVars, infoVars>>

\* EVSE.plugin(ev).
Plugin(e) ==
  /\ op' = OpRecord("plugin", e)
  /\ IF evse.ev = NoEV
     THEN /\ evse' = [evse EXCEPT !.ev = e]
          /\ err' = "none"
     ELSE /\ err' = "StationOccupiedError"
          /\ evse' = evse
  /\ UNCHANGED evs
  /\ UNCHANGED <<queueVars, feasVars, simVars, testVars, infoVars>>

\* unplug as it would be if it only reset the pilot.
Unplug_KeepsEV ==
  /\ op' = OpRecord("unplug", 0)
  /\ evse' = [evse EXCEPT !.current_pilot = 0]
  /\ err' = "none"
  /\ UNCHANGED evs
  /\ UNCHANGED <<queueVars, feasVars, simVars, testVars, infoVars>>

\* unplug as it would be if it only detached the EV.
Unplug_KeepsPilot ==
  /\ op' = OpRecord("unplug", 0)
  /\ evse' = [evse EXCEPT !.ev = NoEV]
  /\ err' = "none"
  /\ UNCHANGED evs
  /\ UNCHANGED <<queueVars, feasVars, simVars, testVars, infoVars>>

\* EVSE.unplug().
Unplug ==
  /\ op' = OpRecord("unplug", 0)
  /\ evse' = [evse EXCEPT !.ev = NoEV, !.current_pilot = 0]
  /\ err' = "none"
  /\ UNCHANGED evs
  /\ UNCHANGED <<queueVars, feasVars, simVars, testVars, infoVars>>

\* A direct call EV.charge(pilot, voltage, period) on EV e.
Charge(e, pilot) ==
  LET r == EV_charge(evs[e], <<pilot, Voltage, Period>>)
  IN /\ op' = OpRecord("charge", e)
     /\ evs' = [evs EXCEPT ![e] = r.ev]
     /\ err' = r.err
     /\ UNCHANGED evse
     /\ UNCHANGED <<queueVars, feasVars, simVars, testVars, infoVars>>

(***************************************************************************)
(* EventQueue (the class is not part of the sources at hand; modelled from *)
(* the specification: an ordered multiset keyed by (timestamp, precedence, *)
(* insertion order), mutated only by insertion and pop-minimum).           *)
(***************************************************************************)
\* At most this many events are ever inserted; ids count the insertions.
MaxEvents == 4

\* Timestamps 0..MaxTime and precedences 0..MaxPrecedence.
MaxTime == 1

MaxPrecedence == 1

\* An event as the queue sees it; id numbers the insertions.
NewEvent(timestamp, precedence, id) ==
  [timestamp |-> timestamp, precedence |-> precedence, id |-> id]

\* The order as it would be if the precedence were not compared.
KeyLeq_TimestampOnly(a, b) == a.timestamp <= b.timestamp

\* Whether event a is ordered at or before event b by (timestamp, precedence).
KeyLeq(a, b) ==
  \/ a.timestamp < b.timestamp
  \/ a.timestamp = b.timestamp /\ a.precedence <= b.precedence

\* Insertion as it would be if the event went before the events of equal key.
InsertSorted_BeforeTies(q, e) ==
  LET n == Cardinality({ i \in 1..Len(q) : KeyLeq(q[i], e) /\ ~KeyLeq(e, q[i]) })
  IN SubSeq(q, 1, n) \o <<e>> \o SubSeq(q, n + 1, Len(q))

\* add(event): the event goes after every queued event whose key is not
\* greater than its own, so that insertion order breaks ties.
InsertSorted(q, e) ==
  LET n == Cardinality({ i \in 1..Len(q) : KeyLeq(q[i], e) })
  IN SubSeq(q, 1, n) \o <<e>> \o SubSeq(q, n + 1, Len(q))

\* add_events(list): repeated add.
RECURSIVE InsertAll(_, _)
InsertAll(q, es) ==
  IF es = <<>> THEN q ELSE InsertAll(InsertSorted(q, Head(es)), Tail(es))

EventInputs == (0..MaxTime) \X (0..MaxPrecedence)

\* EventQueue.add(event).  popped lists what was popped since the last insert.
Add(in) ==
  /\ nextId <= MaxEvents
  /\ queue' = InsertSorted(queue, NewEvent(in[1], in[2], nextId))
  /\ nextId' = nextId + 1
  /\ popped' = <<>>
  /\ qerr' = "none"
  /\ UNCHANGED <<evseVars, feasVars, simVars, testVars, infoVars>>

\* EventQueue.add_events([a, b]).
AddEvents(a, b) ==
  /\ nextId + 1 <= MaxEvents
  /\ queue' = InsertAll(queue, << NewEvent(a[1], a[2], nextId),
                                  NewEvent(b[1], b[2], nextId + 1) >>)
  /\ nextId' = nextId + 2
  /\ popped' = <<>>
  /\ qerr' = "none"
  /\ UNCHANGED <<evseVars, feasVars, simVars, testVars, infoVars>>

\* EventQueue.pop_next(): EmptyQueueError on an empty queue.
PopNext ==
  /\ IF queue = <<>>
     THEN /\ qerr' = "EmptyQueueError"
          /\ UNCHANGED <<queue, popped>>
     ELSE /\ popped' = Append(popped, Head(queue))
          /\ queue' = Tail(queue)
          /\ qerr' = "none"
  /\ UNCHANGED nextId
  /\ UNCHANGED <<evseVars, feasVars, simVars, testVars, infoVars>>

(***************************************************************************)
(* EV operations, exercised on one EV                                      *)
(***************************************************************************)
\* The EV the EV operations are exercised on.
TheEV == CHOOSE e \in EVs : \A f \in EVs : e <= f

\* Arrival, departure and estimated departure are drawn from 0..MaxEVTime.
MaxEVTime == 2

EVTimes == 0..MaxEVTime

\* The tolerance 1e-3 kWh of EV.fully_charged, in energy units (6e8 per kWh).
TolEnergy == 600000

\* The energy of one period at FullRate.
PeriodEnergy == FullRate * Voltage * Period

\* Energies requested: one period at FullRate, the same plus exactly the
\* tolerance, and the whole capacity of the battery.
RequestedEnergies == { PeriodEnergy, PeriodEnergy + TolEnergy, Capacity }

\* Pilots offered to EV.charge in the EV specification.
EVPilots == { 0, FullRate, Amp(32) }

\* EV.remaining_demand.
remaining_demand(ev) == ev.requested_energy - ev.energy_delivered

\* fully_charged as it would be with the comparison  remaining_demand < 1e-3.
fully_charged_Strict(ev) == remaining_demand(ev) < TolEnergy

\* EV.fully_charged:  not (remaining_demand > 1e-3).
fully_charged(ev) == ~(remaining_demand(ev) > TolEnergy)

\* EV.reset().
EV_reset(ev) ==
  [ev EXCEPT !.energy_delivered = 0, !.battery = Battery_reset(ev.battery)]

\* EV.to_dict(context_dict): the attributes, and the battery by its id in the
\* registry (the registry itself is modelled from the specification).
EV_to_dict(ev) ==
  [args |-> [_arrival |-> ev.arrival, _departure |-> ev.departure,
             _session_id |-> ev.session_id, _station_id |-> ev.station_id,
             _requested_energy |-> ev.requested_energy,
             _estimated_departure |-> ev.estimated_departure,
             _energy_delivered |-> ev.energy_delivered,
             _current_charging_rate |-> ev.current_charging_rate,
             _battery |-> "battery-0"],
   context |-> [id \in {"battery-0"} |-> ev.battery]]

\* from_dict as it would be if it only called the constructor.
EV_from_dict_ConstructorOnly(d) ==
  LET in_dict == d.args
  IN NewEVWith(in_dict._arrival, in_dict._departure,
               in_dict._requested_energy, in_dict._station_id,
               in_dict._session_id, d.context[in_dict._battery],
               in_dict._estimated_departure)

\* from_dict as it would be if it left estimated_departure to the
\* constructor's default.
EV_from_dict_NoEstimate(d) ==
  LET in_dict == d.args
      out_obj == NewEV(in_dict._arrival, in_dict._departure,
                       in_dict._requested_energy, in_dict._station_id,
                       in_dict._session_id, d.context[in_dict._battery])
  IN [out_obj EXCEPT !.energy_delivered = in_dict._energy_delivered,
                     !.current_charging_rate = in_dict._current_charging_rate]

\* EV.from_dict(in_dict, context_dict).
EV_from_dict(d) ==
  LET in_dict == d.args
      out_obj == NewEVWith(in_dict._arrival, in_dict._departure,
                           in_dict._requested_energy, in_dict._station_id,
                           in_dict._session_id, d.context[in_dict._battery],
                           in_dict._estimated_departure)
  IN [out_obj EXCEPT !.energy_delivered = in_dict._energy_delivered,
                     !.current_charging_rate = in_dict._current_charging_rate]

EVOpRecord(name, arg, ret) == [name |-> name, arg |-> arg, ret |-> ret]

\* ev.charge(pilot, Voltage, Period) on TheEV; ret is the value returned.
EVCharge(pilot) ==
  LET r == EV_charge(evs[TheEV], <<pilot, Voltage, Period>>)
  IN /\ evs' = [evs EXCEPT ![TheEV] = r.ev]
     /\ op' = EVOpRecord("charge", pilot, r.rate)
     /\ err' = r.err
     /\ UNCHANGED <<evse, queueVars, feasVars, simVars, testVars, infoVars>>

\* ev.reset() on TheEV.
EVReset ==
  /\ evs' = [evs EXCEPT ![TheEV] = EV_reset(@)]
  /\ op' = EVOpRecord("reset", 0, 0)
  /\ err' = "none"
  /\ UNCHANGED <<evse, queueVars, feasVars, simVars, testVars, infoVars>>

\* The setters ev.arrival = value, ev.departure = value and
\* ev.estimated_departure = value.
EVSetArrival(value) ==
  /\ evs' = [evs EXCEPT ![TheEV].arrival = value]
  /\ op' = EVOpRecord("set_arrival", value, 0)
  /\ err' = "none"
  /\ UNCHANGED <<evse, queueVars, feasVars, simVars, testVars, infoVars>>

EVSetDeparture(value) ==
  /\ evs' = [evs EXCEPT ![TheEV].departure = value]
  /\ op' = EVOpRecord("set_departure", value, 0)
  /\ err' = "none"
  /\ UNCHANGED <<evse, queueVars, feasVars, simVars, testVars, infoVars>>

EVSetEstimatedDeparture(value) ==
  /\ evs' = [evs EXCEPT ![TheEV].estimated_departure = value]
  /\ op' = EVOpRecord("set_estimated_departure", value, 0)
  /\ err' = "none"
  /\ UNCHANGED <<evse, queueVars, feasVars, simVars, testVars, infoVars>>

\* TheEV replaced by EV.from_dict(ev.to_dict()).
EVReload ==
  /\ evs' = [evs EXCEPT ![TheEV] = EV_from_dict(EV_to_dict(@))]
  /\ op' = EVOpRecord("from_dict", 0, 0)
  /\ err' = "none"
  /\ UNCHANGED <<evse, queueVars, feasVars, simVars, testVars, infoVars>>

\* The objects loaded so far: loaded_dict maps an id of the registry to the
\* object built for it, objects lists the objects built, a reference being
\* a position in it.
NothingLoaded == [loaded_dict |-> [id \in {} |-> 0], objects |-> <<>>]

\* base.read_from_id(obj_id, context_dict, loaded_dict): the object already
\* loaded for the id, or else a new one built from the context and noted in
\* loaded_dict.
read_from_id(obj_id, context_dict, loaded) ==
  IF obj_id \in DOMAIN loaded.loaded_dict
  THEN [ref |-> loaded.loaded_dict[obj_id], loaded |-> loaded]
  ELSE [ref |-> Len(loaded.objects) + 1,
        loaded |-> [loaded_dict |->
                      [id \in DOMAIN loaded.loaded_dict \cup {obj_id} |->
                         IF id = obj_id THEN Len(loaded.objects) + 1
                         ELSE loaded.loaded_dict[id]],
                    objects |-> Append(loaded.objects, context_dict[obj_id])]]

\* EV.from_dict(in_dict, context_dict, loaded_dict) as the registry calls
\* it, with the objects loaded so far: _battery is the reference it holds.
EV_from_registry(in_dict, context_dict, loaded) ==
  LET battery == read_from_id(in_dict._battery, context_dict, loaded)
      out_obj == EV_from_dict(
                   [args |-> in_dict,
                    context |-> [id \in {in_dict._battery} |->
                                   battery.loaded.objects[battery.ref]]])
  IN [ev |-> out_obj, _battery |-> battery.ref, loaded |-> battery.loaded]

\* Two records that name the battery of TheEV by the same id are loaded
\* with one loaded_dict; TheEV is replaced by the first EV loaded.
EVReloadShared ==
  /\ LET d == EV_to_dict(evs[TheEV])
         first == EV_from_registry(d.args, d.context, NothingLoaded)
         second == EV_from_registry(d.args, d.context, first.loaded)
     IN /\ evs' = [evs EXCEPT ![TheEV] = first.ev]
        /\ op' = EVOpRecord("from_registry", d.args,
                            [first |-> first._battery,
                             second |-> second._battery,
                             second_ev |-> second.ev,
                             objects |-> second.loaded.objects])
  /\ err' = "none"
  /\ UNCHANGED <<evse, queueVars, feasVars, simVars, testVars, infoVars>>

(***************************************************************************)
(* Feasibility of a schedule: ChargingNetwork.is_feasible (the class is    *)
(* not part of the sources at hand; modelled from the component design of  *)
(* the specification) and Interface.is_feasible, which wraps it.           *)
(*                                                                         *)
(* Schedule currents, limits and violation tolerances are whole amperes,   *)
(* relative tolerances are whole percents and phases are multiples of      *)
(* 60 degrees, so that a phasor is an integer combination  a + b * w  of   *)
(* 1 and w = e^(j * 120 degrees), whose squared magnitude is the integer   *)
(* a^2 - a*b + b^2: magnitudes are compared by their squares, exactly.     *)
(***************************************************************************)
\* None, the default of violation_tolerance and relative_tolerance.
NoTolerance == -1

Max2(a, b) == IF a >= b THEN a ELSE b

\* e^(j * phase * pi / 180) as <<a, b>>, meaning a + b * w.
Phasor(phase) ==
  LET k == (phase % 360) \div 60
  IN << <<1, 0>>, <<1, 1>>, <<0, 1>>, <<-1, 0>>, <<-1, -1>>, <<0, -1>> >>[k + 1]

\* The aggregate with the coefficients taken as they are signed.
RECURSIVE LinearAggregate_Signed(_, _, _)
LinearAggregate_Signed(coefficients, currents, n) ==
  IF n = 0 THEN 0
  ELSE LinearAggregate_Signed(coefficients, currents, n - 1)
         + coefficients[n] * Abs(currents[n])

\* The aggregate with the last of the n stations left out.
RECURSIVE LinearAggregate_SkipLast(_, _, _)
LinearAggregate_SkipLast(coefficients, currents, n) ==
  IF n <= 1 THEN 0
  ELSE LinearAggregate_SkipLast(coefficients, currents, n - 1)
         + Abs(coefficients[n - 1]) * Abs(currents[n - 1])

\* Linear mode: the sum over the first n stations of |coefficient| * |current|.
RECURSIVE LinearAggregate(_, _, _)
LinearAggregate(coefficients, currents, n) ==
  IF n = 0 THEN 0
  ELSE LinearAggregate(coefficients, currents, n - 1)
         + Abs(coefficients[n]) * Abs(currents[n])

\* Phasor mode: the sum over the first n stations of
\* coefficient * current * e^(j * phase), as <<a, b>>.
RECURSIVE PhasorAggregate(_, _, _, _)
PhasorAggregate(coefficients, currents, phases, n) ==
  IF n = 0 THEN <<0, 0>>
  ELSE LET rest == PhasorAggregate(coefficients, currents, phases, n - 1)
           u == Phasor(phases[n])
           x == coefficients[n] * currents[n]
       IN <<rest[1] + x * u[1], rest[2] + x * u[2]>>

\* The squared magnitude of a + b * w.
MagnitudeSquared(z) == z[1] * z[1] - z[1] * z[2] + z[2] * z[2]

\* A constraint compared with its bare limit, no tolerance added.
Satisfied_NoTolerance(network, c, currents, linear, violation_tolerance, relative_tolerance) ==
  LET coefficients == network.constraint_matrix[c]
      n == Len(network.station_ids)
      limit == network.magnitudes[c]
  IN IF linear \/ network.phases = <<>>
     THEN LinearAggregate(coefficients, currents, n) <= limit
     ELSE MagnitudeSquared(
            PhasorAggregate(coefficients, currents, network.phases, n))
            <= limit * limit

\* Constraint c holds for the currents of one time step:
\* aggregate <= limit + max(violation_tolerance, limit * relative_tolerance),
\* both sides taken times 100 (and squared in phasor mode).
Satisfied(network, c, currents, linear, violation_tolerance, relative_tolerance) ==
  LET coefficients == network.constraint_matrix[c]
      n == Len(network.station_ids)
      limit == network.magnitudes[c]
      bound == 100 * limit
                 + Max2(100 * violation_tolerance, limit * relative_tolerance)
  IN IF linear \/ network.phases = <<>>
     THEN 100 * LinearAggregate(coefficients, currents, n) <= bound
     ELSE 10000 * MagnitudeSquared(
            PhasorAggregate(coefficients, currents, network.phases, n))
            <= bound * bound

\* Column t of the schedule matrix: the current of every station at step t.
Column(schedule_matrix, t) ==
  [i \in 1..Len(schedule_matrix) |-> schedule_matrix[i][t]]

\* The number of time steps of the schedule matrix.
Steps(schedule_matrix) ==
  IF schedule_matrix = <<>> THEN 0 ELSE Len(schedule_matrix[1])

\* ChargingNetwork.is_feasible(schedule_matrix, linear, violation_tolerance,
\* relative_tolerance); a tolerance left out is the network's own.
Network_is_feasible(network, schedule_matrix, linear, violation_tolerance, relative_tolerance) ==
  LET vt == IF violation_tolerance = NoTolerance
            THEN network.violation_tolerance ELSE violation_tolerance
      rt == IF relative_tolerance = NoTolerance
            THEN network.relative_tolerance ELSE relative_tolerance
  IN \A t \in 1..Steps(schedule_matrix) :
       \A c \in 1..Len(network.constraint_matrix) :
         Satisfied(network, c, Column(schedule_matrix, t), linear, vt, rt)

\* The network built by register_station for each station, in this order,
\* and add_constraint for each constraint.
NewNetwork(station_ids, phases, voltages, constraint_matrix, magnitudes, violation_tolerance, relative_tolerance) ==
  [station_ids |-> station_ids, phases |-> phases, voltages |-> voltages,
   constraint_matrix |-> constraint_matrix, magnitudes |-> magnitudes,
   violation_tolerance |-> violation_tolerance,
   relative_tolerance |-> relative_tolerance]

\* The same stations registered in the order perm.
ReorderedNetwork(network, perm) ==
  LET n == Len(network.station_ids)
      Reordered(v) == IF v = <<>> THEN <<>> ELSE [i \in 1..n |-> v[perm[i]]]
  IN [network EXCEPT
        !.station_ids = Reordered(@), !.phases = Reordered(@),
        !.voltages = Reordered(@),
        !.constraint_matrix =
           [c \in 1..Len(@) |-> Reordered(network.constraint_matrix[c])]]

\* The networks of the model: two stations behind one shared limit of 30 A
\*  - on the same phase;
\*  - on phases 0 and 120 degrees, the first station also limited to 16 A;
\*  - on phases 0 and 120 degrees, the second current subtracted, with a
\*    violation tolerance of 5 A of its own;
\*  - without phase information.
Networks ==
  { NewNetwork(<<"PS-001", "PS-002">>, <<0, 0>>, <<Voltage, Voltage>>,
               << <<1, 1>> >>, <<30>>, 0, 0),
    NewNetwork(<<"PS-001", "PS-002">>, <<0, 120>>, <<Voltage, Voltage>>,
               << <<1, 1>>, <<1, 0>> >>, <<30, 16>>, 0, 0),
    NewNetwork(<<"PS-001", "PS-002">>, <<0, -120>>, <<Voltage, Voltage>>,
               << <<1, -1>> >>, <<30>>, 5, 0),
    NewNetwork(<<"PS-001", "PS-002">>, <<>>, <<Voltage, Voltage>>,
               << <<1, 1>> >>, <<30>>, 0, 0) }

\* Interface.is_feasible as it would be without the check of the lengths,
\* every schedule cut to the shortest.
Interface_is_feasible_NoLengthCheck(network, load_currents, linear, violation_tolerance, relative_tolerance) ==
  IF DOMAIN load_currents = {}
  THEN [err |-> "none", result |-> TRUE, consulted |-> FALSE,
        schedule_matrix |-> <<>>]
  ELSE LET schedule_lengths ==
             { Len(load_currents[id]) : id \in DOMAIN load_currents }
           schedule_length ==
             CHOOSE l \in schedule_lengths : \A m \in schedule_lengths : l <= m
           schedule_matrix ==
             [i \in 1..Len(network.station_ids) |->
                IF network.station_ids[i] \in DOMAIN load_currents
                THEN SubSeq(load_currents[network.station_ids[i]], 1,
                            schedule_length)
                ELSE [t \in 1..schedule_length |-> 0]]
       IN [err |-> "none",
           result |-> Network_is_feasible(network, schedule_matrix, linear,
                                          violation_tolerance,
                                          relative_tolerance),
           consulted |-> TRUE, schedule_matrix |-> schedule_matrix]

\* Interface.is_feasible as it would be if a station missing from
\* load_currents were given the largest proposed current instead of 0.
Interface_is_feasible_MissingAtFull(network, load_currents, linear, violation_tolerance, relative_tolerance) ==
  IF DOMAIN load_currents = {}
  THEN [err |-> "none", result |-> TRUE, consulted |-> FALSE,
        schedule_matrix |-> <<>>]
  ELSE LET schedule_lengths ==
             { Len(load_currents[id]) : id \in DOMAIN load_currents }
       IN IF Cardinality(schedule_lengths) > 1
          THEN [err |-> "InvalidScheduleError", result |-> FALSE,
                consulted |-> FALSE, schedule_matrix |-> <<>>]
          ELSE LET schedule_length == CHOOSE l \in schedule_lengths : TRUE
                   schedule_matrix ==
                     [i \in 1..Len(network.station_ids) |->
                        IF network.station_ids[i] \in DOMAIN load_currents
                        THEN load_currents[network.station_ids[i]]
                        ELSE [t \in 1..schedule_length |-> 20]]
               IN [err |-> "none",
                   result |-> Network_is_feasible(
                                network, schedule_matrix, linear,
                                violation_tolerance, relative_tolerance),
                   consulted |-> TRUE, schedule_matrix |-> schedule_matrix]

\* Interface.is_feasible(load_currents, linear, violation_tolerance,
\* relative_tolerance): what it raises or returns, whether it called the
\* network, and the schedule matrix it passed.
Interface_is_feasible(network, load_currents, linear, violation_tolerance, relative_tolerance) ==
  IF DOMAIN load_currents = {}
  THEN [err |-> "none", result |-> TRUE, consulted |-> FALSE,
        schedule_matrix |-> <<>>]
  ELSE LET schedule_lengths ==
             { Len(load_currents[id]) : id \in DOMAIN load_currents }
       IN IF Cardinality(schedule_lengths) > 1
          THEN [err |-> "InvalidScheduleError", result |-> FALSE,
                consulted |-> FALSE, schedule_matrix |-> <<>>]
          ELSE LET schedule_length == CHOOSE l \in schedule_lengths : TRUE
                   schedule_matrix ==
                     [i \in 1..Len(network.station_ids) |->
                        IF network.station_ids[i] \in DOMAIN load_currents
                        THEN load_currents[network.station_ids[i]]
                        ELSE [t \in 1..schedule_length |-> 0]]
               IN [err |-> "none",
                   result |-> Network_is_feasible(
                                network, schedule_matrix, linear,
                                violation_tolerance, relative_tolerance),
                   consulted |-> TRUE, schedule_matrix |-> schedule_matrix]

\* Schedules have at most MaxScheduleLen time steps.
MaxScheduleLen == 2

\* The currents an algorithm proposes, in amperes.
ScheduleCurrents == { 15, 20 }

Schedules == UNION { [1..l -> ScheduleCurrents] : l \in 0..MaxScheduleLen }

\* The keys of load_currents: the stations of the network and an id that no
\* station has.
LoadIds == { "PS-001", "PS-002", "PS-999" }

LoadCurrents == UNION { [ids -> Schedules] : ids \in SUBSET LoadIds }

\* Tolerances passed to is_feasible: left out, or 5 A and 20 percent.
ViolationTolerances == { NoTolerance, 5 }

RelativeTolerances == { NoTolerance, 20 }

\* A call of Interface.is_feasible that has not run yet.
PendingCall(load_currents, linear, violation_tolerance, relative_tolerance) ==
  [state |-> "pending", load_currents |-> load_currents, linear |-> linear,
   violation_tolerance |-> violation_tolerance,
   relative_tolerance |-> relative_tolerance,
   err |-> "none", result |-> FALSE, consulted |-> FALSE,
   schedule_matrix |-> <<>>]

\* The algorithm's pending call of interface.is_feasible runs.
IsFeasible ==
  /\ call.state = "pending"
  /\ LET r == Interface_is_feasible(net, call.load_currents, call.linear,
                                    call.violation_tolerance,
                                    call.relative_tolerance)
     IN call' = [call EXCEPT
                   !.state = IF r.err = "none" THEN "returned" ELSE "raised",
                   !.err = r.err, !.result = r.result,
                   !.consulted = r.consulted,
                   !.schedule_matrix = r.schedule_matrix]
  /\ UNCHANGED <<net, evseVars, queueVars, simVars, testVars, infoVars>>

(***************************************************************************)
(* The stations of a network, as values                                    *)
(***************************************************************************)
\* EVSE.plugin(ev) on station st: the station afterwards and what is raised.
EVSE_plugin(st, e) ==
  IF st.ev = NoEV
  THEN [err |-> "none", evse |-> [st EXCEPT !.ev = e]]
  ELSE [err |-> "StationOccupiedError", evse |-> st]

\* EVSE.unplug() on station st.
EVSE_unplug(st) == [st EXCEPT !.ev = NoEV, !.current_pilot = 0]

\* EVSE.set_pilot(pilot) on station st, heap being the EVs by session id:
\* the station and the EVs afterwards and what is raised.
EVSE_set_pilot(st, heap, pilot) ==
  IF valid_rate(st, pilot)
  THEN IF st.ev # NoEV
       THEN LET r == EV_charge(heap[st.ev], <<pilot>>)
            IN [err |-> r.err, evse |-> [st EXCEPT !.current_pilot = pilot],
                evs |-> [heap EXCEPT ![st.ev] = r.ev]]
       ELSE [err |-> "none", evse |-> [st EXCEPT !.current_pilot = pilot],
             evs |-> heap]
  ELSE [err |-> "InvalidRateError", evse |-> st, evs |-> heap]

\* The attributes an EVSE object has: those EVSE.__init__ assigns and the
\* properties of the class, and allowable_rates for a FiniteRatesEVSE.
EVSE_attributes(st) ==
  { "_station_id", "_ev", "_max_rate", "_min_rate", "_current_pilot",
    "station_id", "ev", "max_rate", "min_rate", "current_pilot" }
    \cup (IF st.kind = "finite" THEN {"allowable_rates"} ELSE {})

(***************************************************************************)
(* SessionInfo and InfrastructureInfo                                      *)
(***************************************************************************)
\* A scalar and a list-like argument of SessionInfo.__init__.
Scalar(x) == [scalar |-> TRUE, value |-> x]

ListLike(l) == [scalar |-> FALSE, value |-> l]

Min2(a, b) == IF a <= b THEN a ELSE b

\* SessionInfo.remaining_time.
remaining_time(arrival, departure, current_time) ==
  Max2(Min2(departure - arrival, departure - current_time), 0)

\* The array stored for min_rates or max_rates: a scalar repeated
\* remaining_time times, or the list itself if it has that length.
RatesArray(rates, remaining) ==
  IF rates.scalar
  THEN [err |-> "none", value |-> [i \in 1..remaining |-> rates.value]]
  ELSE IF Len(rates.value) = remaining
       THEN [err |-> "none", value |-> rates.value]
       ELSE [err |-> "ValueError", value |-> <<>>]

\* SessionInfo.__init__ without the check of estimated_departure.
NewSessionInfo_NoEstimateCheck(station_id, session_id, requested_energy, energy_delivered, arrival, departure, estimated_departure, current_time, min_rates, max_rates) ==
  LET estimated == IF estimated_departure = NoDeparture
                   THEN departure ELSE estimated_departure
      remaining == remaining_time(arrival, departure, current_time)
      mins == RatesArray(min_rates, remaining)
      maxs == RatesArray(max_rates, remaining)
      failed == \/ departure <= arrival
                \/ mins.err # "none"
                \/ maxs.err # "none"
  IN IF failed
     THEN [err |-> "ValueError"]
     ELSE [err |-> "none", station_id |-> station_id,
           session_id |-> session_id,
           requested_energy |-> requested_energy,
           energy_delivered |-> energy_delivered,
           arrival |-> arrival, departure |-> departure,
           estimated_departure |-> estimated,
           current_time |-> current_time,
           min_rates |-> mins.value, max_rates |-> maxs.value]

\* SessionInfo.__init__: the object, or the ValueError it raises.
NewSessionInfo(station_id, session_id, requested_energy, energy_delivered, arrival, departure, estimated_departure, current_time, min_rates, max_rates) ==
  LET estimated == IF estimated_departure = NoDeparture
                   THEN departure ELSE estimated_departure
      remaining == remaining_time(arrival, departure, current_time)
      mins == RatesArray(min_rates, remaining)
      maxs == RatesArray(max_rates, remaining)
      failed == \/ departure <= arrival
                \/ estimated <= arrival
                \/ mins.err # "none"
                \/ maxs.err # "none"
  IN IF failed
     THEN [err |-> "ValueError"]
     ELSE [err |-> "none", station_id |-> station_id,
           session_id |-> session_id,
           requested_energy |-> requested_energy,
           energy_delivered |-> energy_delivered,
           arrival |-> arrival, departure |-> departure,
           estimated_departure |-> estimated,
           current_time |-> current_time,
           min_rates |-> mins.value, max_rates |-> maxs.value]

\* get_station_index that returns the number of ids before the station.
get_station_index_ZeroBased(station_ids, station_id) ==
  LET positions == { i \in 1..Len(station_ids) : station_ids[i] = station_id }
  IN IF positions = {} THEN 0
     ELSE (CHOOSE i \in positions : \A j \in positions : j <= i) - 1

\* InfrastructureInfo.get_station_index: _station_ids_dict maps an id to
\* the last position that holds it (positions count from 1 here).
get_station_index(station_ids, station_id) ==
  LET positions == { i \in 1..Len(station_ids) : station_ids[i] = station_id }
  IN IF positions = {} THEN 0
     ELSE CHOOSE i \in positions : \A j \in positions : j <= i

\* _validate that checks the number of stations only.
NewInfrastructureInfo_StationsOnly(constraint_matrix, constraint_limits, phases, voltages, constraint_ids, station_ids, max_pilot, min_pilot, allowable_pilots, is_continuous) ==
  LET columns == IF constraint_matrix = <<>> THEN 0
                 ELSE Len(constraint_matrix[1])
      num_stations_set ==
        { columns, Len(phases), Len(voltages), Len(station_ids),
          Len(max_pilot), Len(min_pilot), Len(allowable_pilots),
          Len(is_continuous) }
  IN IF Cardinality(num_stations_set) > 1
     THEN [err |-> "ValueError"]
     ELSE [err |-> "none", constraint_matrix |-> constraint_matrix,
           constraint_limits |-> constraint_limits, phases |-> phases,
           voltages |-> voltages, constraint_ids |-> constraint_ids,
           station_ids |-> station_ids, max_pilot |-> max_pilot,
           min_pilot |-> min_pilot, allowable_pilots |-> allowable_pilots,
           is_continuous |-> is_continuous]

\* InfrastructureInfo.__init__ with _validate: the object, or ValueError if
\* the per-station or the per-constraint inputs differ in length.
NewInfrastructureInfo(constraint_matrix, constraint_limits, phases, voltages, constraint_ids, station_ids, max_pilot, min_pilot, allowable_pilots, is_continuous) ==
  LET columns == IF constraint_matrix = <<>> THEN 0
                 ELSE Len(constraint_matrix[1])
      num_stations_set ==
        { columns, Len(phases), Len(voltages), Len(station_ids),
          Len(max_pilot), Len(min_pilot), Len(allowable_pilots),
          Len(is_continuous) }
      num_constraints_set ==
        { Len(constraint_matrix), Len(constraint_limits), Len(constraint_ids) }
  IN IF Cardinality(num_stations_set) > 1
        \/ Cardinality(num_constraints_set) > 1
     THEN [err |-> "ValueError"]
     ELSE [err |-> "none", constraint_matrix |-> constraint_matrix,
           constraint_limits |-> constraint_limits, phases |-> phases,
           voltages |-> voltages, constraint_ids |-> constraint_ids,
           station_ids |-> station_ids, max_pilot |-> max_pilot,
           min_pilot |-> min_pilot, allowable_pilots |-> allowable_pilots,
           is_continuous |-> is_continuous]

(***************************************************************************)
(* Interface: what it reads from the simulator.  nw is the simulator's     *)
(* network with its stations nw._EVSEs, heap the EVs by session id, and    *)
(* the object handed out for an EV is its session id, a reference.         *)
(* (Simulator and ChargingNetwork are not part of the sources at hand.)    *)
(***************************************************************************)
\* The network with the stations registered in it.
RegisterStations(network, constraint_index, evses) ==
  [station_ids |-> network.station_ids, phases |-> network.phases,
   voltages |-> network.voltages,
   constraint_matrix |-> network.constraint_matrix,
   magnitudes |-> network.magnitudes,
   violation_tolerance |-> network.violation_tolerance,
   relative_tolerance |-> network.relative_tolerance,
   constraint_index |-> constraint_index, _EVSEs |-> evses]

\* Simulator.get_active_evs(): the EVs that are attached to a station
\* (arrived and not removed) and not yet departed, in the order of the
\* stations.
get_active_evs(nw, heap, iteration) ==
  LET Occupied(id) ==
        /\ nw._EVSEs[id].ev # NoEV
        /\ heap[nw._EVSEs[id].ev].arrival <= iteration
        /\ iteration < heap[nw._EVSEs[id].ev].departure
      stations == SelectSeq(nw.station_ids, Occupied)
  IN [i \in 1..Len(stations) |-> nw._EVSEs[stations[i]].ev]

\* Interface.active_evs: the EV objects themselves.
Interface_active_evs(nw, heap, iteration) ==
  [err |-> "none", value |-> get_active_evs(nw, heap, iteration)]

\* Interface.active_sessions(): one SessionInfo per active EV, built with
\* the default min_rates = 0 and max_rates = inf; a ValueError of
\* SessionInfo.__init__ leaves the call.
Interface_active_sessions(nw, heap, iteration) ==
  LET active == get_active_evs(nw, heap, iteration)
      infos == [i \in 1..Len(active) |->
                  LET ev == heap[active[i]]
                  IN NewSessionInfo(ev.station_id, ev.session_id,
                                    ev.requested_energy, ev.energy_delivered,
                                    ev.arrival, ev.departure,
                                    ev.estimated_departure, iteration,
                                    Scalar(0), Scalar(Inf))]
  IN IF \E i \in 1..Len(infos) : infos[i].err # "none"
     THEN [err |-> "ValueError", value |-> <<>>]
     ELSE [err |-> "none", value |-> infos]

\* Simulator.index_of_evse(station_id).
index_of_evse(nw, station_id) ==
  CHOOSE i \in 1..Len(nw.station_ids) : nw.station_ids[i] = station_id

\* Interface.last_applied_pilot_signals: pilot_signals[k + 1] is the column
\* of iteration k.
Interface_last_applied_pilot_signals(nw, heap, iteration, pilot_signals) ==
  LET i == iteration - 1
      active == get_active_evs(nw, heap, iteration)
      sessions == { active[k] : k \in 1..Len(active) }
  IN IF i > 0
     THEN [err |-> "none",
           value |-> [e \in { a \in sessions : heap[a].arrival <= i } |->
                        pilot_signals[i + 1][
                          index_of_evse(nw, heap[e].station_id)]]]
     ELSE [err |-> "none", value |-> [e \in {} |-> 0]]

\* Interface.infrastructure_info(): reading evse.is_continuous of the first
\* station raises AttributeError when the object has no such attribute.
Interface_infrastructure_info(nw) ==
  LET station_ids == nw.station_ids
      evse_of(i) == nw._EVSEs[station_ids[i]]
      n == Len(station_ids)
  IN IF \E i \in 1..n :
          {"is_continuous", "allowable_pilot_signals"}
            \ EVSE_attributes(evse_of(i)) # {}
     THEN [err |-> "AttributeError"]
     ELSE NewInfrastructureInfo(
            nw.constraint_matrix, nw.magnitudes, nw.phases, nw.voltages,
            nw.constraint_index, station_ids,
            [i \in 1..n |-> evse_of(i).max_rate],
            [i \in 1..n |-> evse_of(i).min_rate],
            [i \in 1..n |-> evse_of(i).allowable_pilot_signals],
            [i \in 1..n |-> evse_of(i).is_continuous])

\* Interface.max_pilot_signal(station_id).
Interface_max_pilot_signal(nw, station_id) ==
  LET infrastructure_info == Interface_infrastructure_info(nw)
      index == get_station_index(nw.station_ids, station_id)
  IN IF infrastructure_info.err # "none"
     THEN [err |-> infrastructure_info.err, value |-> 0]
     ELSE IF index = 0 THEN [err |-> "KeyError", value |-> 0]
     ELSE [err |-> "none", value |-> infrastructure_info.max_pilot[index]]

\* Interface.min_pilot_signal(station_id).
Interface_min_pilot_signal(nw, station_id) ==
  LET infrastructure_info == Interface_infrastructure_info(nw)
      index == get_station_index(nw.station_ids, station_id)
  IN IF infrastructure_info.err # "none"
     THEN [err |-> infrastructure_info.err, value |-> 0]
     ELSE IF index = 0 THEN [err |-> "KeyError", value |-> 0]
     ELSE [err |-> "none", value |-> infrastructure_info.min_pilot[index]]

(***************************************************************************)
(* Simulator: the main loop (the class is not part of the sources at hand; *)
(* modelled from the data model and section 4.5 of the specification).     *)
(* Each iteration passes through                                           *)
(*   check, drain, snapshot, invoke-or-reuse, [algorithm,] validate,       *)
(*   apply, record, advance.                                               *)
(* The stations are the EVSE objects of evse.py, so Apply calls their      *)
(* set_pilot.  An infeasible column is noted and applied as it is.         *)
(***************************************************************************)
\* The value of schedule_iteration before any schedule was returned.
NoSchedule == -1

\* A Plugin event for EV session, and the Unplug event of a session;
\* at one timestamp an Unplug is applied before a Plugin.
PluginEvent(timestamp, session, station_id) ==
  [timestamp |-> timestamp, precedence |-> 1, type |-> "Plugin",
   session_id |-> session, station_id |-> station_id]

UnplugEvent(timestamp, session, station_id) ==
  [timestamp |-> timestamp, precedence |-> 0, type |-> "Unplug",
   session_id |-> session, station_id |-> station_id]

\* The events numbered by their insertion and put in the queue by add_events.
LoadEvents(events) ==
  InsertAll(<<>>, [i \in 1..Len(events) |->
                     [id |-> i, timestamp |-> events[i].timestamp,
                      precedence |-> events[i].precedence,
                      type |-> events[i].type,
                      session_id |-> events[i].session_id,
                      station_id |-> events[i].station_id]])

\* The EV of a session of the trace.
TraceEV(session, station_id, arrival, departure, estimated_departure) ==
  NewEVWith(arrival, departure, PeriodEnergy, station_id, session,
            NewBattery(Capacity, 0, Amp(32) * Voltage), estimated_departure)

\* The event traces of the model, each with the EVs it names:
\*  - no event at all;
\*  - two sessions on the two stations, both unplugged at 2;
\*  - one session whose estimated departure is not after its arrival and
\*    which is never unplugged;
\*  - two sessions on one station that overlap;
\*  - two sessions on one station, the second plugged in at the time the
\*    first is unplugged (the Plugin inserted first);
\*  - one session that arrives at 1, on the second station;
\*  - one session on the first station that stays for three iterations.
Traces ==
  { [evs |-> [e \in {} |-> 0], events |-> <<>>],
    [evs |-> [e \in {1, 2} |->
                IF e = 1 THEN TraceEV(1, "PS-001", 0, 2, NoDeparture)
                ELSE TraceEV(2, "PS-002", 1, 2, NoDeparture)],
     events |-> << PluginEvent(0, 1, "PS-001"), PluginEvent(1, 2, "PS-002"),
                   UnplugEvent(2, 1, "PS-001"), UnplugEvent(2, 2, "PS-002") >>],
    [evs |-> [e \in {1} |-> TraceEV(1, "PS-001", 0, 1, 0)],
     events |-> << PluginEvent(0, 1, "PS-001") >>],
    [evs |-> [e \in {1, 2} |->
                IF e = 1 THEN TraceEV(1, "PS-001", 0, 2, NoDeparture)
                ELSE TraceEV(2, "PS-001", 1, 2, NoDeparture)],
     events |-> << PluginEvent(0, 1, "PS-001"), PluginEvent(1, 2, "PS-001"),
                   UnplugEvent(2, 1, "PS-001") >>],
    [evs |-> [e \in {1, 2} |->
                IF e = 1 THEN TraceEV(1, "PS-001", 0, 1, NoDeparture)
                ELSE TraceEV(2, "PS-001", 1, 2, NoDeparture)],
     events |-> << PluginEvent(0, 1, "PS-001"), PluginEvent(1, 2, "PS-001"),
                   UnplugEvent(1, 1, "PS-001"), UnplugEvent(2, 2, "PS-001") >>],
    [evs |-> [e \in {1} |-> TraceEV(1, "PS-002", 1, 3, NoDeparture)],
     events |-> << PluginEvent(1, 1, "PS-002"), UnplugEvent(3, 1, "PS-002") >>],
    [evs |-> [e \in {1} |-> TraceEV(1, "PS-001", 0, 3, NoDeparture)],
     events |-> << PluginEvent(0, 1, "PS-001"), UnplugEvent(3, 1, "PS-001") >>] }

\* The network of the simulator: a continuous station and a finite-rate
\* station behind one shared limit of 30 A.
SimNetwork ==
  RegisterStations(
    NewNetwork(<<"PS-001", "PS-002">>, <<0, 0>>, <<Voltage, Voltage>>,
               << <<1, 1>> >>, <<30>>, 0, 0),
    <<"C1">>,
    [id \in {"PS-001", "PS-002"} |->
       IF id = "PS-001" THEN get_EVSE_by_type(id, "BASIC")
       ELSE get_EVSE_by_type(id, "ClipperCreek")])

\* max_recompute is drawn from 1..MaxRecompute.
MaxRecompute == 2

\* The schedules the algorithm may return: station id to pilots, one for
\* each iteration from the current one on.
AlgSchedules ==
  { [id \in {} |-> <<>>],
    [id \in {"PS-002"} |-> <<Amp(16), Amp(8)>>],
    [id \in {"PS-002"} |-> <<Amp(20)>>],
    [id \in {"PS-001", "PS-002"} |->
       IF id = "PS-001" THEN <<Amp(16)>> ELSE <<Amp(16), Amp(8)>>] }

\* The view the algorithm holds when it has asked the Interface nothing.
NoView == [kind |-> "none", station_id |-> "", err |-> "none", value |-> <<>>]

\* Simulator.__init__.
NewSimulator(max_recompute) ==
  [iteration |-> 0, phase |-> "check", status |-> "running",
   error |-> "none", max_recompute |-> max_recompute,
   schedule |-> [id \in {} |-> <<>>], schedule_iteration |-> NoSchedule,
   changed |-> FALSE, invoked |-> FALSE,
   proposed |-> [id \in {} |-> 0], feasible |-> TRUE,
   pilot_signals |-> <<>>, charging_rates |-> <<>>, peak |-> 0,
   event_history |-> <<>>]

\* The terminal condition: no event queued and no EV active.
Terminal ==
  queue = <<>> /\ get_active_evs(net, evs, sim.iteration) = <<>>

\* The top of the loop: the run ends in the terminal condition and goes on
\* to drain the events of the iteration otherwise.
Check ==
  /\ sim.status = "running"
  /\ sim.phase = "check"
  /\ sim' = IF Terminal THEN [sim EXCEPT !.status = "stopped"]
            ELSE [sim EXCEPT !.phase = "drain"]
  /\ UNCHANGED <<evseVars, queueVars, feasVars, view, testVars, infoVars>>

\* Drain-events as it would be if any queued event of the iteration could
\* be taken next.
DrainEvent_AnyOfIteration ==
  /\ sim.status = "running"
  /\ sim.phase = "drain"
  /\ \E k \in 1..Len(queue) :
       /\ queue[k].timestamp = sim.iteration
       /\ LET event == queue[k]
              st == net._EVSEs[event.station_id]
              r == IF event.type = "Plugin"
                   THEN EVSE_plugin(st, event.session_id)
                   ELSE [err |-> "none", evse |-> EVSE_unplug(st)]
          IN /\ queue' = SubSeq(queue, 1, k - 1) \o SubSeq(queue, k + 1, Len(queue))
             /\ net' = [net EXCEPT !._EVSEs[event.station_id] = r.evse]
             /\ sim' = [sim EXCEPT
                          !.event_history = Append(@, event),
                          !.changed = TRUE,
                          !.status = IF r.err = "none" THEN @ ELSE "failed",
                          !.error = r.err]
  /\ UNCHANGED <<evseVars, popped, nextId, qerr, call, view, testVars, infoVars>>

\* Drain-events: pop the first event, which has the timestamp of the
\* iteration, and apply it.  A Plugin on an occupied station ends the run.
DrainEvent ==
  /\ sim.status = "running"
  /\ sim.phase = "drain"
  /\ queue # <<>>
  /\ Head(queue).timestamp = sim.iteration
  /\ LET event == Head(queue)
         st == net._EVSEs[event.station_id]
         r == IF event.type = "Plugin"
              THEN EVSE_plugin(st, event.session_id)
              ELSE [err |-> "none", evse |-> EVSE_unplug(st)]
     IN /\ queue' = Tail(queue)
        /\ net' = [net EXCEPT !._EVSEs[event.station_id] = r.evse]
        /\ sim' = [sim EXCEPT
                     !.event_history = Append(@, event),
                     !.changed = TRUE,
                     !.status = IF r.err = "none" THEN @ ELSE "failed",
                     !.error = r.err]
  /\ UNCHANGED <<evseVars, popped, nextId, qerr, call, view, testVars, infoVars>>

\* No event of this iteration is left: on to the snapshot.
DrainDone ==
  /\ sim.status = "running"
  /\ sim.phase = "drain"
  /\ IF queue = <<>> THEN TRUE ELSE Head(queue).timestamp # sim.iteration
  /\ sim' = [sim EXCEPT !.phase = "snapshot"]
  /\ UNCHANGED <<evseVars, queueVars, feasVars, view, testVars, infoVars>>

\* Whether the algorithm has to be invoked in this iteration.
MustInvoke ==
  \/ sim.changed
  \/ sim.schedule_iteration = NoSchedule
  \/ sim.iteration - sim.schedule_iteration >= sim.max_recompute

\* Snapshot: the Interface is what the algorithm will be given.
Snapshot ==
  /\ sim.status = "running"
  /\ sim.phase = "snapshot"
  /\ sim' = [sim EXCEPT !.phase = "invoke-or-reuse"]
  /\ UNCHANGED <<evseVars, queueVars, feasVars, view, testVars, infoVars>>

\* Invoke: the engine calls the algorithm and waits for it.
Invoke ==
  /\ sim.status = "running"
  /\ sim.phase = "invoke-or-reuse"
  /\ MustInvoke
  /\ sim' = [sim EXCEPT !.phase = "algorithm", !.invoked = TRUE]
  /\ view' = NoView
  /\ UNCHANGED <<evseVars, queueVars, feasVars, testVars, infoVars>>

\* Reuse: the schedule returned last is kept.
Reuse ==
  /\ sim.status = "running"
  /\ sim.phase = "invoke-or-reuse"
  /\ ~MustInvoke
  /\ sim' = [sim EXCEPT !.phase = "validate"]
  /\ UNCHANGED <<evseVars, queueVars, feasVars, view, testVars, infoVars>>

\* The algorithm returns a schedule that starts at the current iteration.
AlgorithmReturns(schedule) ==
  /\ sim.status = "running"
  /\ sim.phase = "algorithm"
  /\ sim' = [sim EXCEPT !.phase = "validate", !.schedule = schedule,
                        !.schedule_iteration = sim.iteration]
  /\ view' = NoView
  /\ UNCHANGED <<evseVars, queueVars, feasVars, testVars, infoVars>>

\* The column as it would be if the first one were repeated.
CurrentColumn_Repeated(schedule, schedule_iteration, iteration) ==
  [id \in { d \in DOMAIN schedule : 1 <= Len(schedule[d]) } |->
     schedule[id][1]]

\* The column of the schedule for the iteration: the pilot of every station
\* whose sequence reaches that far.
CurrentColumn(schedule, schedule_iteration, iteration) ==
  LET k == iteration - schedule_iteration + 1
  IN [id \in { d \in DOMAIN schedule : k <= Len(schedule[d]) } |->
        schedule[id][k]]

\* Validate: the column, in amperes, is checked by the network's
\* is_feasible, stations without a pilot counting as 0.
Validate ==
  /\ sim.status = "running"
  /\ sim.phase = "validate"
  /\ LET proposed == CurrentColumn(sim.schedule, sim.schedule_iteration,
                                   sim.iteration)
         r == Interface_is_feasible(
                net, [id \in DOMAIN proposed |-> <<proposed[id] \div 10000>>],
                FALSE, NoTolerance, NoTolerance)
     IN sim' = [sim EXCEPT !.phase = "apply", !.proposed = proposed,
                           !.feasible = r.result]
  /\ UNCHANGED <<evseVars, queueVars, feasVars, view, testVars, infoVars>>

\* set_pilot on the stations i..n that have a proposed pilot, in the order
\* of the stations.  InvalidRateError is noted and the next station is
\* served; any other error leaves the loop.
RECURSIVE ApplyPilots(_, _, _, _)
ApplyPilots(nw, heap, proposed, i) ==
  IF i > Len(nw.station_ids) THEN [err |-> "none", net |-> nw, evs |-> heap]
  ELSE LET id == nw.station_ids[i]
       IN IF id \notin DOMAIN proposed
          THEN ApplyPilots(nw, heap, proposed, i + 1)
          ELSE LET r == EVSE_set_pilot(nw._EVSEs[id], heap, proposed[id])
                   nw2 == [nw EXCEPT !._EVSEs[id] = r.evse]
               IN IF r.err \in {"none", "InvalidRateError"}
                  THEN ApplyPilots(nw2, r.evs, proposed, i + 1)
                  ELSE [err |-> r.err, net |-> nw2, evs |-> r.evs]

\* The rate realized at each station: that of the EV attached to it.
RealizedRates(nw, heap) ==
  [i \in 1..Len(nw.station_ids) |->
     LET st == nw._EVSEs[nw.station_ids[i]]
     IN IF st.ev = NoEV THEN 0 ELSE heap[st.ev].current_charging_rate]

RECURSIVE SeqSum(_)
SeqSum(q) == IF q = <<>> THEN 0 ELSE Head(q) + SeqSum(Tail(q))

\* Apply as it would be if the peak were the aggregate of the iteration.
Apply_PeakIsLastAggregate ==
  /\ sim.status = "running"
  /\ sim.phase = "apply"
  /\ LET r == ApplyPilots(net, evs, sim.proposed, 1)
         aggregate == SeqSum(RealizedRates(r.net, r.evs))
     IN /\ net' = r.net
        /\ evs' = r.evs
        /\ sim' = IF r.err = "none"
                  THEN [sim EXCEPT !.phase = "record", !.peak = aggregate]
                  ELSE [sim EXCEPT !.status = "failed", !.error = r.err]
  /\ UNCHANGED <<evse, err, op, queueVars, call, view, testVars, infoVars>>

\* Apply: set_pilot for every station with a proposed pilot; the peak
\* follows the realized aggregate current.  An error other than
\* InvalidRateError ends the run.
Apply ==
  /\ sim.status = "running"
  /\ sim.phase = "apply"
  /\ LET r == ApplyPilots(net, evs, sim.proposed, 1)
         aggregate == SeqSum(RealizedRates(r.net, r.evs))
     IN /\ net' = r.net
        /\ evs' = r.evs
        /\ sim' = IF r.err = "none"
                  THEN [sim EXCEPT !.phase = "record",
                                   !.peak = Max2(@, aggregate)]
                  ELSE [sim EXCEPT !.status = "failed", !.error = r.err]
  /\ UNCHANGED <<evse, err, op, queueVars, call, view, testVars, infoVars>>

\* Record as it would be if the column of the iteration replaced the last
\* recorded one.
Record_InPlace ==
  /\ sim.status = "running"
  /\ sim.phase = "record"
  /\ LET pilots == [i \in 1..Len(net.station_ids) |->
                      IF net.station_ids[i] \in DOMAIN sim.proposed
                      THEN sim.proposed[net.station_ids[i]] ELSE 0]
         n == Len(sim.pilot_signals)
     IN sim' = [sim EXCEPT
                  !.phase = "advance",
                  !.pilot_signals =
                     IF n = 0 THEN <<pilots>>
                     ELSE Append([@ EXCEPT ![n] = pilots], pilots),
                  !.charging_rates = Append(@, RealizedRates(net, evs))]
  /\ UNCHANGED <<evseVars, queueVars, feasVars, view, testVars, infoVars>>

\* Record: the requested pilots and the realized rates of the iteration.
Record ==
  /\ sim.status = "running"
  /\ sim.phase = "record"
  /\ sim' = [sim EXCEPT
               !.phase = "advance",
               !.pilot_signals =
                  Append(@, [i \in 1..Len(net.station_ids) |->
                               IF net.station_ids[i] \in DOMAIN sim.proposed
                               THEN sim.proposed[net.station_ids[i]] ELSE 0]),
               !.charging_rates = Append(@, RealizedRates(net, evs))]
  /\ UNCHANGED <<evseVars, queueVars, feasVars, view, testVars, infoVars>>

\* Advance: iteration += 1.
Advance ==
  /\ sim.status = "running"
  /\ sim.phase = "advance"
  /\ sim' = [sim EXCEPT !.iteration = @ + 1, !.phase = "check",
                        !.changed = FALSE, !.invoked = FALSE]
  /\ UNCHANGED <<evseVars, queueVars, feasVars, view, testVars, infoVars>>

(***************************************************************************)
(* The algorithm at work: what it asks the Interface for, and what it does *)
(* to the values it was given.                                             *)
(***************************************************************************)
AlgorithmRuns == sim.status = "running" /\ sim.phase = "algorithm"

\* interface.active_sessions().
ActiveSessions ==
  /\ AlgorithmRuns
  /\ LET r == Interface_active_sessions(net, evs, sim.iteration)
     IN view' = [kind |-> "active_sessions", station_id |-> "",
                 err |-> r.err, value |-> r.value]
  /\ UNCHANGED <<evseVars, queueVars, feasVars, sim, testVars, infoVars>>

\* interface.active_evs.
ActiveEVs ==
  /\ AlgorithmRuns
  /\ LET r == Interface_active_evs(net, evs, sim.iteration)
     IN view' = [kind |-> "active_evs", station_id |-> "",
                 err |-> r.err, value |-> r.value]
  /\ UNCHANGED <<evseVars, queueVars, feasVars, sim, testVars, infoVars>>

\* interface.last_applied_pilot_signals.
LastAppliedPilotSignals ==
  /\ AlgorithmRuns
  /\ LET r == Interface_last_applied_pilot_signals(
                net, evs, sim.iteration, sim.pilot_signals)
     IN view' = [kind |-> "last_applied_pilot_signals", station_id |-> "",
                 err |-> r.err, value |-> r.value]
  /\ UNCHANGED <<evseVars, queueVars, feasVars, sim, testVars, infoVars>>

\* interface.min_pilot_signal(station_id).
MinPilotSignal(station_id) ==
  /\ AlgorithmRuns
  /\ LET r == Interface_min_pilot_signal(net, station_id)
     IN view' = [kind |-> "min_pilot_signal", station_id |-> station_id,
                 err |-> r.err, value |-> r.value]
  /\ UNCHANGED <<evseVars, queueVars, feasVars, sim, testVars, infoVars>>

\* interface.max_pilot_signal(station_id).
MaxPilotSignal(station_id) ==
  /\ AlgorithmRuns
  /\ LET r == Interface_max_pilot_signal(net, station_id)
     IN view' = [kind |-> "max_pilot_signal", station_id |-> station_id,
                 err |-> r.err, value |-> r.value]
  /\ UNCHANGED <<evseVars, queueVars, feasVars, sim, testVars, infoVars>>

\* The algorithm assigns to an attribute of the first SessionInfo it got.
MutateSession ==
  /\ AlgorithmRuns
  /\ view.kind = "active_sessions"
  /\ view.err = "none"
  /\ view.value # <<>>
  /\ view' = [view EXCEPT !.value[1].energy_delivered =
                            view.value[1].requested_energy]
  /\ UNCHANGED <<evseVars, queueVars, feasVars, sim, testVars, infoVars>>

\* The algorithm assigns  ev.departure = current time  on the first EV it
\* got from active_evs: the object is the simulator's own.
MutateEV ==
  /\ AlgorithmRuns
  /\ view.kind = "active_evs"
  /\ view.value # <<>>
  /\ evs' = [evs EXCEPT ![view.value[1]].departure = sim.iteration]
  /\ UNCHANGED <<evse, err, op, queueVars, feasVars, sim, view, testVars, infoVars>>

\* The algorithm calls  ev.charge(pilot, voltage, period)  on the first EV it
\* got from active_evs, if that EV still lacks energy: the simulator's EV is
\* charged.
ChargeEV ==
  /\ AlgorithmRuns
  /\ view.kind = "active_evs"
  /\ view.value # <<>>
  /\ ~fully_charged(evs[view.value[1]])
  /\ LET r == EV_charge(evs[view.value[1]], <<FullRate, Voltage, Period>>)
     IN evs' = [evs EXCEPT ![view.value[1]] = r.ev]
  /\ UNCHANGED <<evse, err, op, queueVars, feasVars, sim, view, testVars, infoVars>>

(***************************************************************************)
(* TestCase: the charging sessions of a test case, stepped once for each   *)
(* iteration by the run loop.  Its EV class is not part of the sources at  *)
(* hand: an EV is charged as an EV of the model is, at the voltage and the *)
(* period of the test case, and its finishing_time is kept with the test   *)
(* case.                                                                   *)
(***************************************************************************)
\* The iterations stepped are 0..MaxTestTime - 1.
MaxTestTime == 3

\* finishing_time of an EV that has not finished.
NoTime == -1

\* Event(type, time, description, session) of the simulation output.
OutputEvent(type, iteration, description, session_id) ==
  [type |-> type, time |-> iteration, description |-> description,
   session_id |-> session_id]

\* TestCase.__init__ followed by clear_data(): no data and every EV reset.
NewTestCase(ids) ==
  [EVs |-> ids, iteration |-> 0, err |-> "none",
   max_rate |-> Amp(32),
   events |-> <<>>,
   actual_charging_rates |-> [e \in {} |-> 0],
   charging_data |-> [i \in 1..Len(ids) |-> <<>>],
   network_data |-> <<>>,
   finishing_time |-> [i \in 1..Len(ids) |-> NoTime]]

\* get_active_EVs as it would be if fully charged EVs were kept.
TestCase_get_active_EVs_WithCharged(ids, heap, iteration) ==
  SelectSeq(ids, LAMBDA e : /\ heap[e].arrival <= iteration
                            /\ heap[e].departure > iteration)

\* get_active_EVs as it would be if the iteration of the departure counted.
TestCase_get_active_EVs_AtDeparture(ids, heap, iteration) ==
  SelectSeq(ids, LAMBDA e : /\ ~fully_charged(heap[e])
                            /\ heap[e].arrival <= iteration
                            /\ heap[e].departure >= iteration)

\* TestCase.get_active_EVs(iteration): in the order of self.EVs.
TestCase_get_active_EVs(ids, heap, iteration) ==
  SelectSeq(ids, LAMBDA e : /\ ~fully_charged(heap[e])
                            /\ heap[e].arrival <= iteration
                            /\ heap[e].departure > iteration)

\* The position of a session in self.EVs.
TestCase_index(ids, e) == CHOOSE i \in 1..Len(ids) : ids[i] = e

\* The loop of TestCase.step over the active EVs that are left; total is the
\* total current so far.  pilot_signals[ev.session_id] raises KeyError for
\* a session the dictionary does not have.
RECURSIVE TestCase_step_loop(_, _, _, _, _, _)
TestCase_step_loop(active, heap, tc, total, pilot_signals, iteration) ==
  IF active = <<>> THEN [err |-> "none", evs |-> heap, test |-> tc, total |-> total]
  ELSE
    LET e == Head(active)
        k == TestCase_index(tc.EVs, e)
        arrived == IF heap[e].arrival = iteration
                   THEN <<OutputEvent("INFO", iteration, "EV arrived", e)>>
                   ELSE <<>>
    IN IF e \notin DOMAIN pilot_signals
       THEN [err |-> "KeyError", evs |-> heap,
             test |-> [tc EXCEPT !.events = @ \o arrived], total |-> total]
       ELSE
         LET r == EV_charge_body(heap[e], pilot_signals[e], Voltage, Period)
             charge_rate == r.rate
             exceeded == IF charge_rate > tc.max_rate
                         THEN <<OutputEvent("ERROR", iteration,
                                            "Max charging rate exceeded", e)>>
                         ELSE <<>>
             zero == IF charge_rate = 0
                     THEN <<OutputEvent("WARNING", iteration,
                                        "Charging rate is set to 0A", e)>>
                     ELSE <<>>
             finished == IF fully_charged(r.ev)
                         THEN <<OutputEvent("INFO", iteration,
                                            "EV finished charging", e)>>
                         ELSE <<>>
             sample == [time |-> iteration, charge_rate |-> charge_rate,
                        pilot_signal |-> pilot_signals[e],
                        remaining_demand |-> remaining_demand(r.ev)]
             tc2 == [tc EXCEPT
                       !.events = @ \o arrived \o exceeded \o zero \o finished,
                       !.actual_charging_rates =
                          [s \in DOMAIN @ \cup {e} |->
                             IF s = e THEN charge_rate ELSE @[s]],
                       !.charging_data[k] = Append(@, sample),
                       !.finishing_time[k] =
                          IF fully_charged(r.ev) THEN iteration ELSE @]
         IN TestCase_step_loop(Tail(active), [heap EXCEPT ![e] = r.ev], tc2,
                               total + charge_rate, pilot_signals, iteration)

\* TestCase.step(pilot_signals, iteration).
TestCase_step(tc, heap, pilot_signals, iteration) ==
  LET active_EVs == TestCase_get_active_EVs(tc.EVs, heap, iteration)
      start == [tc EXCEPT !.actual_charging_rates = [e \in {} |-> 0]]
      r == TestCase_step_loop(active_EVs, heap, start, 0, pilot_signals,
                              iteration)
  IN IF r.err # "none"
     THEN [err |-> r.err, evs |-> r.evs, test |-> [r.test EXCEPT !.err = r.err]]
     ELSE [err |-> "none", evs |-> r.evs,
           test |-> [r.test EXCEPT
                       !.network_data =
                          Append(@, [time |-> iteration,
                                     total_current |-> r.total,
                                     nbr_active_EVs |-> Len(active_EVs)])]]

\* The sessions of the test cases.
TestSessions == <<1, 2>>

\* The EVs of the test cases: the first arrives at 0, departs at 2 and
\* requests one period's energy at 16 A or at the maximum rate of 32 A; the
\* second arrives at 0 or at 1, departs at 3 and requests one period's
\* energy at 16 A.
TestEVs ==
  { [e \in {1, 2} |->
       IF e = 1
       THEN NewEV(0, 2, requested_energy, "PS-001", 1,
                  NewBattery(Capacity, 0, Amp(32) * Voltage))
       ELSE NewEV(arrival, 3, PeriodEnergy, "PS-002", 2,
                  NewBattery(Capacity, 0, Amp(32) * Voltage))] :
      requested_energy \in {PeriodEnergy, Capacity}, arrival \in {0, 1} }

\* The pilot signals given to a step: a pilot for all or some sessions.
TestPilotSignals ==
  UNION { [ids -> {0, FullRate, Amp(32)}] : ids \in SUBSET {1, 2} }

\* The run loop calls step(pilot_signals, iteration) and goes on to the
\* next iteration.
Step(pilot_signals) ==
  /\ test.err = "none"
  /\ test.iteration < MaxTestTime
  /\ LET r == TestCase_step(test, evs, pilot_signals, test.iteration)
     IN /\ evs' = r.evs
        /\ test' = IF r.err = "none"
                   THEN [r.test EXCEPT !.iteration = @ + 1]
                   ELSE r.test
  /\ UNCHANGED <<evse, err, op, queueVars, feasVars, simVars, infoVars>>

(***************************************************************************)
(* InfrastructureInfo constructed directly, and the per-station lookups    *)
(* made on it.  info holds the arguments of the constructor call, the      *)
(* object (or the error raised) and the last lookup.                       *)
(***************************************************************************)
MaxStations == 2
MaxConstraints == 2

\* Python's None, an argument that is passed, and an argument that is left
\* out of the call so that its default None applies.
None == "None"

Given(value) == [given |-> TRUE, value |-> value]

Default == [given |-> FALSE]

\* The per-station and the per-constraint inputs of the constructor.
PerStation ==
  { "constraint_matrix", "phases", "voltages", "station_ids", "max_pilot",
    "min_pilot", "allowable_pilots", "is_continuous" }

PerConstraint == { "constraint_matrix", "constraint_limits", "constraint_ids" }

StationNames == { "PS-001", "PS-002", "PS-003" }

\* InfrastructureInfo.__init__: the defaults of allowable_pilots and
\* is_continuous are filled in from num_stations = len(station_ids), then
\* _validate runs.
InfrastructureInfo_init(constraint_matrix, constraint_limits, phases, voltages, constraint_ids, station_ids, max_pilot, min_pilot, allowable_pilots, is_continuous) ==
  LET num_stations == Len(station_ids)
  IN NewInfrastructureInfo(
       constraint_matrix, constraint_limits, phases, voltages,
       constraint_ids, station_ids, max_pilot, min_pilot,
       IF allowable_pilots.given THEN allowable_pilots.value
       ELSE [i \in 1..num_stations |-> None],
       IF is_continuous.given THEN is_continuous.value
       ELSE [i \in 1..num_stations |-> TRUE])

\* Interface.max_pilot_signal, min_pilot_signal, evse_voltage, evse_phase
\* on the InfrastructureInfo self: the entry at get_station_index, or
\* KeyError for an id that is not in _station_ids_dict.
InfrastructureInfo_lookup(self, station_id) ==
  LET index == get_station_index(self.station_ids, station_id)
      entry(vector) == IF index \in DOMAIN vector THEN vector[index]
                       ELSE "IndexError"
  IN IF station_id \notin { self.station_ids[i] : i \in DOMAIN self.station_ids }
     THEN [err |-> "KeyError", station_id |-> station_id]
     ELSE [err |-> "none", station_id |-> station_id, index |-> index,
           max_pilot_signal |-> entry(self.max_pilot),
           min_pilot_signal |-> entry(self.min_pilot),
           evse_voltage |-> entry(self.voltages),
           evse_phase |-> entry(self.phases)]

\* Lengths of the inputs of one group: all n, but for at most one input,
\* which has length m.
Lengths(group, n, odd, m) == [x \in group |-> IF x = odd THEN m ELSE n]

StationLengths ==
  { Lengths(PerStation, n, odd, m) :
      n \in 1..MaxStations, odd \in PerStation \cup {"none"},
      m \in 0..MaxStations }

ConstraintLengths ==
  { Lengths(PerConstraint, n, odd, m) :
      n \in 1..MaxConstraints,
      odd \in (PerConstraint \ {"constraint_matrix"}) \cup {"none"},
      m \in 0..MaxConstraints }

\* The arguments of one call: vectors of the lengths s and c whose entries
\* differ from position to position, the station ids, and allowable_pilots
\* and is_continuous given or left out.
InfrastructureArgs(s, c, ids, given) ==
  [constraint_matrix |->
       [r \in 1..c["constraint_matrix"] |->
          [k \in 1..s["constraint_matrix"] |-> IF k = r THEN 1 ELSE 0]],
     constraint_limits |-> [r \in 1..c["constraint_limits"] |-> Amp(32 * r)],
     constraint_ids |-> [r \in 1..c["constraint_ids"] |-> r],
     phases |-> [i \in 1..s["phases"] |-> 120 * (i - 1)],
     voltages |-> [i \in 1..s["voltages"] |-> 208 + i],
     station_ids |-> ids,
     max_pilot |-> [i \in 1..s["max_pilot"] |-> Amp(8 * i)],
     min_pilot |-> [i \in 1..s["min_pilot"] |-> Amp(i)],
     allowable_pilots |->
       IF given THEN Given([i \in 1..s["allowable_pilots"] |-> None])
       ELSE Default,
     is_continuous |->
       IF given THEN Given([i \in 1..s["is_continuous"] |-> TRUE])
       ELSE Default]

\* InfrastructureInfo(...) is called, with station ids in any order and
\* with repetitions.
ConstructInfrastructureInfo ==
  /\ info = <<>>
  /\ \E s \in StationLengths, c \in ConstraintLengths, given \in BOOLEAN :
     \E ids \in [1..s["station_ids"] -> StationNames] :
       LET a == InfrastructureArgs(s, c, ids, given)
       IN info' = [kind |-> "InfrastructureInfo", args |-> a,
                   self |-> InfrastructureInfo_init(
                              a.constraint_matrix, a.constraint_limits,
                              a.phases, a.voltages, a.constraint_ids,
                              a.station_ids, a.max_pilot, a.min_pilot,
                              a.allowable_pilots, a.is_continuous),
                   lookup |-> <<>>]
  /\ UNCHANGED <<evseVars, queueVars, feasVars, simVars, testVars>>

\* One of the per-station accessors is called on the constructed object.
LookupStation(station_id) ==
  /\ info # <<>>
  /\ info.kind = "InfrastructureInfo"
  /\ info.self.err = "none"
  /\ info' = [info EXCEPT !.lookup = InfrastructureInfo_lookup(info.self, station_id)]
  /\ UNCHANGED <<evseVars, queueVars, feasVars, simVars, testVars>>

\* SessionInfo constructed directly: times up to MaxSessionTime, with
\* estimated_departure given or left out, and each of min_rates and
\* max_rates a scalar or a list of any length up to MaxSessionTime whose
\* entries differ from position to position.
MaxSessionTime == 2

SessionTimes == 0..MaxSessionTime

SessionRates(is_scalar, scalar, n, step) ==
  IF is_scalar THEN Scalar(scalar)
  ELSE ListLike([i \in 1..n |-> Amp(step * i)])

ConstructSessionInfo ==
  /\ info = <<>>
  /\ \E arrival, departure, current_time \in SessionTimes,
        estimated_departure \in SessionTimes \cup {NoDeparture},
        min_scalar, max_scalar \in BOOLEAN,
        min_len, max_len \in 0..MaxSessionTime :
       LET min_rates == SessionRates(min_scalar, 0, min_len, 1)
           max_rates == SessionRates(max_scalar, Inf, max_len, 8)
       IN
       info' = [kind |-> "SessionInfo",
                args |-> [arrival |-> arrival, departure |-> departure,
                          estimated_departure |-> estimated_departure,
                          current_time |-> current_time,
                          min_rates |-> min_rates, max_rates |-> max_rates],
                self |-> NewSessionInfo(
                           "PS-001", 1, Capacity, 0, arrival, departure,
                           estimated_departure, current_time,
                           min_rates, max_rates),
                lookup |-> <<>>]
  /\ UNCHANGED <<evseVars, queueVars, feasVars, simVars, testVars>>

(***************************************************************************)
(* Specifications                                                          *)
(***************************************************************************)
InitEVSEVars(stations) ==
  /\ evse \in stations
  /\ evs = [e \in EVs |-> FreshEV(e)]
  /\ err = "none"
  /\ op = [name |-> "init", arg |-> 0, prevEv |-> NoEV, prevPilot |-> 0]

InitQueueVars ==
  /\ queue = <<>>
  /\ popped = <<>>
  /\ nextId = 1
  /\ qerr = "none"

InitFeasVars(networks) ==
  /\ net \in networks
  /\ call = <<>>

InitSimVars ==
  /\ sim = <<>>
  /\ view = <<>>

InitTestVars == test = <<>>

InitInfoVars == info = <<>>

Init ==
  /\ InitEVSEVars(InitialEVSEs)
  /\ InitQueueVars
  /\ InitFeasVars({<<>>})
  /\ InitSimVars
  /\ InitTestVars
  /\ InitInfoVars

InitQueue ==
  /\ InitEVSEVars({get_EVSE_by_type("PS-001", "BASIC")})
  /\ InitQueueVars
  /\ InitFeasVars({<<>>})
  /\ InitSimVars
  /\ InitTestVars
  /\ InitInfoVars

\* One EV, constructed with any times (EV.__init__ checks none), any of the
\* requested energies and a fresh battery.
InitEV ==
  /\ evse = get_EVSE_by_type("PS-001", "BASIC")
  /\ \E a \in EVTimes, d \in EVTimes, est \in EVTimes \cup {NoDeparture},
        req \in RequestedEnergies :
       evs = [e \in {TheEV} |->
                NewEVWith(a, d, req, "PS-001", e,
                          NewBattery(Capacity, 0, Amp(32) * Voltage), est)]
  /\ err = "none"
  /\ op = EVOpRecord("init", 0, 0)
  /\ InitQueueVars
  /\ InitFeasVars({<<>>})
  /\ InitSimVars
  /\ InitTestVars
  /\ InitInfoVars

NextEVSE ==
  \/ \E pilot \in Pilots : SetPilot(pilot)
  \/ \E e \in EVs : Plugin(e)
  \/ Unplug
  \/ \E e \in EVs, pilot \in ChargePilots : Charge(e, pilot)

NextQueue ==
  \/ \E in \in EventInputs : Add(in)
  \/ \E a \in EventInputs, b \in EventInputs : AddEvents(a, b)
  \/ PopNext

\* A network and one call of Interface.is_feasible with any arguments.
InitFeas ==
  /\ InitEVSEVars({get_EVSE_by_type("PS-001", "BASIC")})
  /\ InitQueueVars
  /\ InitSimVars
  /\ InitTestVars
  /\ InitInfoVars
  /\ net \in Networks
  /\ \E load_currents \in LoadCurrents, linear \in BOOLEAN,
        violation_tolerance \in ViolationTolerances,
        relative_tolerance \in RelativeTolerances :
       call = PendingCall(load_currents, linear, violation_tolerance,
                          relative_tolerance)

NextFeas == IsFeasible

\* A simulator with one of the traces in its queue and the EVs of the
\* trace, about to run.
InitSim ==
  /\ evse = get_EVSE_by_type("PS-001", "BASIC")
  /\ err = "none"
  /\ op = EVOpRecord("init", 0, 0)
  /\ popped = <<>>
  /\ qerr = "none"
  /\ call = <<>>
  /\ net = SimNetwork
  /\ view = NoView
  /\ InitTestVars
  /\ InitInfoVars
  /\ \E trace \in Traces :
       /\ evs = trace.evs
       /\ queue = LoadEvents(trace.events)
       /\ nextId = Len(trace.events) + 1
  /\ \E max_recompute \in 1..MaxRecompute : sim = NewSimulator(max_recompute)

NextSim ==
  \/ Check
  \/ DrainEvent
  \/ DrainDone
  \/ Snapshot
  \/ Invoke
  \/ Reuse
  \/ ActiveSessions
  \/ ActiveEVs
  \/ LastAppliedPilotSignals
  \/ \E station_id \in {"PS-001", "PS-002"} : MinPilotSignal(station_id)
  \/ \E station_id \in {"PS-001", "PS-002"} : MaxPilotSignal(station_id)
  \/ MutateSession
  \/ MutateEV
  \/ ChargeEV
  \/ \E schedule \in AlgSchedules : AlgorithmReturns(schedule)
  \/ Validate
  \/ Apply
  \/ Record
  \/ Advance

\* The steps of the engine, the return of the algorithm it waits for
\* included: what the algorithm asks in the meantime is not among them.
EngineStep ==
  \/ Check
  \/ DrainEvent
  \/ DrainDone
  \/ Snapshot
  \/ Invoke
  \/ Reuse
  \/ \E schedule \in AlgSchedules : AlgorithmReturns(schedule)
  \/ Validate
  \/ Apply
  \/ Record
  \/ Advance

\* A test case with its EVs, about to be stepped.
InitTest ==
  /\ evse = get_EVSE_by_type("PS-001", "BASIC")
  /\ err = "none"
  /\ op = EVOpRecord("init", 0, 0)
  /\ InitQueueVars
  /\ InitFeasVars({<<>>})
  /\ InitSimVars
  /\ InitInfoVars
  /\ \E heap \in TestEVs : evs = [e \in DOMAIN heap |-> EV_reset(heap[e])]
  /\ test = NewTestCase(TestSessions)

NextTest == \E pilot_signals \in TestPilotSignals : Step(pilot_signals)

NextEV ==
  \/ \E pilot \in EVPilots : EVCharge(pilot)
  \/ EVReset
  \/ \E value \in EVTimes : EVSetArrival(value)
  \/ \E value \in EVTimes : EVSetDeparture(value)
  \/ \E value \in EVTimes : EVSetEstimatedDeparture(value)
  \/ EVReload
  \/ EVReloadShared

\* One station and the EVs that use it.
SpecEVSE == Init /\ [][NextEVSE]_vars

\* One event queue.
SpecQueue == InitQueue /\ [][NextQueue]_vars

\* One EV and its battery.
SpecEV == InitEV /\ [][NextEV]_vars

\* One network and one feasibility check.
SpecFeas == InitFeas /\ [][NextFeas]_vars

\* One run of the simulator, the algorithm included.
SpecSim == InitSim /\ [][NextSim]_vars

\* The same run, in which the loop and the algorithm keep taking steps.
SpecSimFair == SpecSim /\ WF_vars(EngineStep)

\* One test case, stepped iteration by iteration.
SpecTest == InitTest /\ [][NextTest]_vars

InitInfra ==
  /\ evse = get_EVSE_by_type("PS-001", "BASIC")
  /\ err = "none"
  /\ op = EVOpRecord("init", 0, 0)
  /\ evs = <<>>
  /\ InitQueueVars
  /\ InitFeasVars({<<>>})
  /\ InitSimVars
  /\ InitTestVars
  /\ InitInfoVars

NextInfra ==
  \/ ConstructInfrastructureInfo
  \/ ConstructSessionInfo
  \/ \E station_id \in StationNames : LookupStation(station_id)

SpecInfra == InitInfra /\ [][NextInfra]_vars

(***************************************************************************)
(* Properties                                                              *)
(***************************************************************************)
\* C1: whatever was inserted, the events popped since the last insertion
\* come out in non-decreasing (timestamp, precedence) order, and two events
\* of equal timestamp and precedence come out in the order of insertion.
C1_PopsSortedStable ==
  \A i \in 1..Len(popped), j \in 1..Len(popped) :
    i < j =>
      \/ popped[i].timestamp < popped[j].timestamp
      \/ /\ popped[i].timestamp = popped[j].timestamp
         /\ popped[i].precedence < popped[j].precedence
      \/ /\ popped[i].timestamp = popped[j].timestamp
         /\ popped[i].precedence = popped[j].precedence
         /\ popped[i].id < popped[j].id

\* A queue drained to empty, where two popped events tie on the key and two
\* were popped in the reverse of their insertion order.
C1_Witness ==
  /\ queue = <<>>
  /\ Len(popped) >= 3
  /\ \E i \in 1..Len(popped), j \in 1..Len(popped) :
       /\ i < j
       /\ popped[i].timestamp = popped[j].timestamp
       /\ popped[i].precedence = popped[j].precedence
  /\ \E i \in 1..Len(popped), j \in 1..Len(popped) :
       i < j /\ popped[i].id > popped[j].id

\* C2: the station references no EV or exactly one, and no step in which an
\* EV is attached before and after (in particular no plugin call) changes
\* which EV that is.
C2_AtMostOneEVNeverReplaced ==
  /\ [](evse.ev \in EVs \cup {NoEV})
  /\ [][(evse.ev # NoEV /\ evse'.ev # NoEV) => evse'.ev = evse.ev]_vars

\* A plugin of another EV was attempted on an occupied station with a
\* non-zero pilot, and the occupant is still attached.
C2_Witness ==
  /\ op.name = "plugin"
  /\ op.prevEv # NoEV
  /\ op.arg # op.prevEv
  /\ op.prevPilot # 0
  /\ evse.ev = op.prevEv

\* C3: right after a successful plugin(e1), plugin(e2) with e2 # e1 raises
\* StationOccupiedError and leaves e1 attached; right after an unplug() that
\* detached e1, plugin(e2) succeeds and leaves e2 attached.
C3_SecondPluginRejectedReplugAccepted ==
  [][\A e1 \in EVs, e2 \in EVs :
       (e1 # e2 /\ op'.name = "plugin" /\ op'.arg = e2) =>
         /\ (op.name = "plugin" /\ op.arg = e1 /\ err = "none")
              => (err' = "StationOccupiedError" /\ evse'.ev = e1)
         /\ (op.name = "unplug" /\ op.prevEv = e1)
              => (err' = "none" /\ evse'.ev = e2)]_vars

\* The second plugin, with a different EV, has just been refused.
C3_Witness ==
  /\ op.name = "plugin"
  /\ err = "StationOccupiedError"
  /\ op.prevEv # NoEV
  /\ op.arg # op.prevEv
  /\ evse.ev = op.prevEv

\* C4 as stated: plugin(e) raises StationOccupiedError exactly when an EV
\* other than e is attached, and otherwise (station empty, or e itself
\* already attached) attaches e without error.
C4_RaisesOnlyForDifferentEV ==
  [][\A e \in EVs :
       (op'.name = "plugin" /\ op'.arg = e) =>
         IF evse.ev # NoEV /\ evse.ev # e
         THEN err' = "StationOccupiedError"
         ELSE err' = "none" /\ evse'.ev = e]_vars

\* C4 amended: plugin(e) raises StationOccupiedError exactly when any EV, e
\* itself included, is attached, and then changes nothing; on an empty station
\* it attaches e without error.
C4_RaisesWheneverOccupied ==
  [][\A e \in EVs :
       (op'.name = "plugin" /\ op'.arg = e) =>
         IF evse.ev # NoEV
         THEN err' = "StationOccupiedError" /\ evse' = evse
         ELSE err' = "none" /\ evse' = [evse EXCEPT !.ev = e]]_vars

\* The EV that is attached was plugged in again and refused.
C4_Witness ==
  /\ op.name = "plugin"
  /\ op.prevEv = op.arg
  /\ err = "StationOccupiedError"
  /\ evse.ev = op.arg

\* C5: on a continuous station, set_pilot(pilot) completes without an error
\* exactly when min_rate <= pilot <= max_rate.
C5_ContinuousSucceedsIffInRange ==
  [][(op'.name = "set_pilot" /\ evse.kind = "continuous") =>
       ((err' = "none") <=>
          (evse.min_rate <= op'.arg /\ op'.arg <= evse.max_rate))]_vars

\* C6: a set_pilot with a pilot the station does not allow raises
\* InvalidRateError and leaves the station (current_pilot, occupancy) and
\* every EV (energy_delivered, current_charging_rate) as they were.
C6_InvalidPilotChangesNothing ==
  [][(op'.name = "set_pilot" /\ ~valid_rate(evse, op'.arg)) =>
       /\ err' = "InvalidRateError"
       /\ evse'.current_pilot = evse.current_pilot
       /\ evse'.ev = evse.ev
       /\ evse' = evse
       /\ \A e \in EVs :
            /\ evs'[e].energy_delivered = evs[e].energy_delivered
            /\ evs'[e].current_charging_rate = evs[e].current_charging_rate]_vars

\* A pilot was refused on a station that has a non-zero pilot and an attached
\* EV that has received energy.
C6_Witness ==
  /\ op.name = "set_pilot"
  /\ err = "InvalidRateError"
  /\ evse.current_pilot # 0
  /\ evse.current_pilot # op.arg
  /\ evse.ev # NoEV
  /\ evs[evse.ev].energy_delivered > 0

\* C7: set_pilot(0) is never refused as an invalid rate, whatever the
\* station's min_rate or list of allowable rates.
C7_ZeroPilotAlwaysAccepted ==
  [][(op'.name = "set_pilot" /\ op'.arg = 0) => err' # "InvalidRateError"]_vars

\* C8: a discrete-rate station accepts a pilot exactly when the pilot is
\* within 1e-3 A of one of its allowable rates, at every rate alike.
C8_DiscreteAcceptsIffWithinAtol ==
  [][(op'.name = "set_pilot" /\ evse.kind = "finite") =>
       ((err' # "InvalidRateError") <=>
          (\E i \in 1..Len(evse.allowable_rates) :
             Abs(op'.arg - evse.allowable_rates[i]) <= Atol))]_vars

\* C9: a set_pilot(p) with an allowed p completes without error, sets
\* current_pilot to p and changes nothing else of the station; the attached
\* EV, if any, is charged once with (p, voltage, period); no other EV changes.
C9_ValidPilotAppliedAndEVCharged ==
  [][(op'.name = "set_pilot" /\ valid_rate(evse, op'.arg)) =>
       /\ err' = "none"
       /\ evse' = [evse EXCEPT !.current_pilot = op'.arg]
       /\ evs' = IF evse.ev = NoEV THEN evs
                 ELSE [evs EXCEPT ![evse.ev] =
                         EV_charge(@, <<op'.arg, Voltage, Period>>).ev]]_vars

\* C10: unplug() can always be called and never raises; afterwards no EV is
\* attached and current_pilot is 0, and station_id, min_rate and max_rate
\* are what they were.
C10_UnplugDetachesAndResets ==
  /\ [](ENABLED Unplug)
  /\ [][op'.name = "unplug" =>
          /\ err' = "none"
          /\ evse'.ev = NoEV
          /\ evse'.current_pilot = 0
          /\ evse'.station_id = evse.station_id
          /\ evse'.min_rate = evse.min_rate
          /\ evse'.max_rate = evse.max_rate]_vars

\* An unplug of a station that had an EV attached and a non-zero pilot.
C10_Witness ==
  /\ op.name = "unplug"
  /\ op.prevEv # NoEV
  /\ op.prevPilot # 0
  /\ evse.ev = NoEV
  /\ evse.current_pilot = 0

C12_RemainingDemandNonNegative ==
  /\ [](\A e \in DOMAIN evs : remaining_demand(evs[e]) >= 0)
  /\ [][\A e \in DOMAIN evs :
          remaining_demand(evs'[e]) < remaining_demand(evs[e])
            => op'.name = "charge"]_vars

\* C13 as stated: fully_charged iff remaining_demand is strictly below the
\* tolerance.
C13_FullyChargedIffBelowTolerance ==
  \A e \in DOMAIN evs :
    fully_charged(evs[e]) <=> remaining_demand(evs[e]) < TolEnergy

\* C13 amended: fully_charged iff remaining_demand is not above the
\* tolerance, so an EV whose remaining demand is exactly the tolerance is
\* fully charged.
C13_FullyChargedIffNotAboveTolerance ==
  \A e \in DOMAIN evs :
    fully_charged(evs[e]) <=> remaining_demand(evs[e]) <= TolEnergy

\* A charge has left exactly the tolerance as remaining demand.
C13_Witness ==
  /\ op.name = "charge"
  /\ op.ret > 0
  /\ remaining_demand(evs[TheEV]) = TolEnergy
  /\ fully_charged(evs[TheEV])

\* C14: every EV has departure > arrival and estimated_departure > arrival,
\* at construction and after every setter.
C14_DepartureAfterArrival ==
  \A e \in DOMAIN evs :
    /\ evs[e].departure > evs[e].arrival
    /\ evs[e].estimated_departure > evs[e].arrival

\* C15: charge(pilot, voltage, period) adds rate * voltage * period to
\* energy_delivered, where rate is the rate achievable by the battery, sets
\* current_charging_rate to rate, returns rate and changes no other field
\* of the EV than its battery.
C15_ChargeAccumulatesAchievedRate ==
  [][op'.name = "charge" =>
       LET ev == evs[TheEV]
           after == evs'[TheEV]
           rate == Battery_rate(ev.battery, op'.arg, Voltage, Period)
       IN /\ err' = "none"
          /\ op'.ret = rate
          /\ after.energy_delivered =
               ev.energy_delivered + rate * Voltage * Period
          /\ after.current_charging_rate = rate
          /\ after.battery = Battery_charge(ev.battery, op'.arg,
                                            Voltage, Period).battery
          /\ after = [ev EXCEPT !.energy_delivered = after.energy_delivered,
                                !.current_charging_rate = rate,
                                !.battery = after.battery]]_vars

\* A charge whose battery achieved less than the pilot, but not nothing.
C15_Witness ==
  /\ op.name = "charge"
  /\ op.ret > 0
  /\ op.ret < op.arg
  /\ evs[TheEV].current_charging_rate = op.ret
  /\ evs[TheEV].energy_delivered > op.ret * Voltage * Period

\* C16: reset() leaves the EV as it was right after construction:
\* energy_delivered 0, current_charging_rate 0, the battery in its initial
\* state.
C16_ResetRestoresConstructedState ==
  [][op'.name = "reset" =>
       /\ evs'[TheEV].energy_delivered = 0
       /\ evs'[TheEV].current_charging_rate = 0
       /\ evs'[TheEV].battery = Battery_reset(evs[TheEV].battery)
       /\ evs'[TheEV] =
            NewEVWith(evs[TheEV].arrival, evs[TheEV].departure,
                      evs[TheEV].requested_energy, evs[TheEV].station_id,
                      evs[TheEV].session_id,
                      Battery_reset(evs[TheEV].battery),
                      evs[TheEV].estimated_departure)]_vars

C18_FeasibilityInvariantUnderReordering ==
  call.consulted =>
    \A perm \in Permutations(1..Len(net.station_ids)) :
      Network_is_feasible(
        ReorderedNetwork(net, perm),
        [i \in 1..Len(net.station_ids) |-> call.schedule_matrix[perm[i]]],
        call.linear, call.violation_tolerance, call.relative_tolerance)
        = call.result

\* An infeasible schedule that would be feasible if its rows alone were
\* swapped, the stations left in their order.
C18_Witness ==
  /\ call.state = "returned"
  /\ call.consulted
  /\ ~call.result
  /\ call.schedule_matrix[1] # call.schedule_matrix[2]
  /\ Network_is_feasible(
       net, <<call.schedule_matrix[2], call.schedule_matrix[1]>>,
       call.linear, call.violation_tolerance, call.relative_tolerance)

\* C19: at every time step and for every constraint the phasor aggregate
\* magnitude is at most the linear aggregate sum, and a schedule feasible in
\* linear mode is feasible in phasor mode with the same tolerances.
C19_PhasorAtMostLinear ==
  call.consulted =>
    /\ net.phases # <<>> =>
         \A t \in 1..Steps(call.schedule_matrix) :
           \A c \in 1..Len(net.constraint_matrix) :
             LET n == Len(net.station_ids)
                 currents == Column(call.schedule_matrix, t)
                 sum == LinearAggregate(net.constraint_matrix[c], currents, n)
             IN MagnitudeSquared(
                  PhasorAggregate(net.constraint_matrix[c], currents,
                                  net.phases, n)) <= sum * sum
    /\ Network_is_feasible(net, call.schedule_matrix, TRUE,
                           call.violation_tolerance, call.relative_tolerance)
         => Network_is_feasible(net, call.schedule_matrix, FALSE,
                                call.violation_tolerance,
                                call.relative_tolerance)

\* A schedule found feasible in phasor mode that linear mode rejects.
C19_Witness ==
  /\ call.state = "returned"
  /\ call.consulted
  /\ ~call.linear
  /\ call.result
  /\ ~Network_is_feasible(net, call.schedule_matrix, TRUE,
                          call.violation_tolerance, call.relative_tolerance)

\* C20: Interface.is_feasible raises InvalidScheduleError whenever the
\* sequences of load_currents do not all have the same length, and then
\* does not call the network and changes no state of the simulation.
C20_UnequalLengthsRaise ==
  [][(call.state = "pending" /\ call'.state # "pending") =>
       LET unequal == \E a \in DOMAIN call.load_currents :
                        \E b \in DOMAIN call.load_currents :
                          Len(call.load_currents[a])
                            # Len(call.load_currents[b])
       IN /\ unequal => call'.err = "InvalidScheduleError"
          /\ call'.err = "InvalidScheduleError" =>
               /\ call'.state = "raised"
               /\ ~call'.consulted
               /\ call'.schedule_matrix = <<>>
               /\ net' = net
               /\ UNCHANGED <<evseVars, queueVars, simVars, testVars, infoVars>>]_vars

\* A call with schedules of one and two steps for the two stations has
\* raised InvalidScheduleError.
C20_Witness ==
  /\ call.state = "raised"
  /\ call.err = "InvalidScheduleError"
  /\ ~call.consulted
  /\ DOMAIN call.load_currents = {"PS-001", "PS-002"}
  /\ Len(call.load_currents["PS-001"]) = 1
  /\ Len(call.load_currents["PS-002"]) = 2

\* C21: a schedule naming a station id that no station of the network has
\* is rejected with InvalidScheduleError.
C21_UnknownStationRaises ==
  (/\ call.state # "pending"
   /\ \E id \in DOMAIN call.load_currents :
        \A i \in 1..Len(net.station_ids) : net.station_ids[i] # id)
    => call.err = "InvalidScheduleError"

\* C22: the answer of Interface.is_feasible for a schedule that omits
\* stations is its answer for the same schedule with every omitted station
\* at 0 for every time step; the empty schedule is judged like the all-zero
\* schedule of any length.
C22_MissingStationsCountAsZero ==
  call.state = "returned" =>
    LET stations == { net.station_ids[i] : i \in 1..Len(net.station_ids) }
        lengths == IF DOMAIN call.load_currents = {}
                   THEN 0..MaxScheduleLen
                   ELSE { Len(call.load_currents[id]) :
                            id \in DOMAIN call.load_currents }
        Filled(l) ==
          [id \in DOMAIN call.load_currents \cup stations |->
             IF id \in DOMAIN call.load_currents
             THEN call.load_currents[id] ELSE [t \in 1..l |-> 0]]
    IN \A l \in lengths :
         LET r == Interface_is_feasible(net, Filled(l), call.linear,
                                        call.violation_tolerance,
                                        call.relative_tolerance)
         IN r.err = "none" /\ r.result = call.result

\* A schedule of 20 A for the first station alone has been found feasible
\* under a shared limit of 30 A.
C22_Witness ==
  /\ call.state = "returned"
  /\ call.consulted
  /\ call.result
  /\ net.magnitudes = <<30>>
  /\ DOMAIN call.load_currents = {"PS-001"}
  /\ call.load_currents["PS-001"] = <<20>>
  /\ call.schedule_matrix = << <<20>>, <<0>> >>

(***************************************************************************)
(* Properties of the Interface                                             *)
(***************************************************************************)
\* C23: while the algorithm runs, whatever it asks the Interface for and
\* whatever it does to the values it was given, the EVs, the stations and
\* network, the event queue and the simulator's own state stay as they are.
C23_AlgorithmCannotChangeSimulator ==
  [][(AlgorithmRuns /\ sim'.phase = "algorithm") =>
       /\ evs' = evs
       /\ net' = net
       /\ queue' = queue
       /\ sim' = sim]_vars

\* C24: a call of active_sessions() returns exactly one record per EV
\* active at the moment of the call, with that EV's energy_delivered and
\* the current iteration as current_time.
C24_ActiveSessionsReflectsCurrentState ==
  [][(view'.kind = "active_sessions" /\ view.kind # "active_sessions") =>
       LET active == get_active_evs(net', evs', sim'.iteration)
       IN /\ view'.err = "none"
          /\ Len(view'.value) = Len(active)
          /\ \A i \in 1..Len(active) :
               /\ view'.value[i].session_id = active[i]
               /\ view'.value[i].station_id = evs'[active[i]].station_id
               /\ view'.value[i].energy_delivered
                    = evs'[active[i]].energy_delivered
               /\ view'.value[i].current_time = sim'.iteration]_vars

\* C25: every record of active_sessions() has, for each period, min and max
\* rate bounds equal to the min_rate and max_rate of the station its EV is
\* attached to.
C25_SessionBoundsAreThoseOfTheEVSE ==
  (view.kind = "active_sessions" /\ view.err = "none") =>
    \A i \in 1..Len(view.value) :
      LET st == net._EVSEs[view.value[i].station_id]
      IN /\ \A k \in 1..Len(view.value[i].min_rates) :
              view.value[i].min_rates[k] = st.min_rate
         /\ \A k \in 1..Len(view.value[i].max_rates) :
              view.value[i].max_rates[k] = st.max_rate

\* C26: at an iteration t >= 1, last_applied_pilot_signals has an entry for
\* exactly the active EVs that arrived at or before t - 1, each with the
\* pilot recorded for its station at iteration t - 1.
C26_LastAppliedPilotsOfPreviousIteration ==
  (view.kind = "last_applied_pilot_signals" /\ sim.iteration >= 1) =>
    LET i == sim.iteration - 1
        active == get_active_evs(net, evs, sim.iteration)
        expected == { e \in { active[k] : k \in 1..Len(active) } :
                        evs[e].arrival <= i }
    IN /\ view.err = "none"
       /\ DOMAIN view.value = expected
       /\ \A e \in expected :
            view.value[e] =
              sim.pilot_signals[i + 1][index_of_evse(net, evs[e].station_id)]

\* C27: for a finite-rate EVSE, min_pilot_signal returns the smallest
\* non-zero rate the EVSE allows and max_pilot_signal the largest one.
C27_PilotBoundsOfFiniteRatesEVSE ==
  \A station_id \in DOMAIN net._EVSEs :
    LET st == net._EVSEs[station_id]
        rates == { st.allowable_rates[k] : k \in 1..Len(st.allowable_rates) }
        smallest == CHOOSE r \in rates \ {0} : \A q \in rates \ {0} : r <= q
    IN (st.kind = "finite" /\ view.station_id = station_id) =>
         /\ view.kind = "min_pilot_signal" =>
              (view.err = "none" /\ view.value = smallest)
         /\ view.kind = "max_pilot_signal" =>
              (view.err = "none" /\ view.value = SeqMax(st.allowable_rates))

\* C28: a run over a trace with disjoint occupancy never ends while an
\* event is queued or an EV is active, and it does end, in the terminal
\* condition.
C28_RunEndsExactlyInTerminalCondition ==
  /\ []((sim.status # "running" /\ sim.error # "StationOccupiedError") =>
          (sim.status = "stopped" /\ Terminal))
  /\ <>(sim.status = "stopped" \/ sim.error = "StationOccupiedError")

\* Event a comes before event b in (timestamp, precedence, insertion) order.
AppliedBefore(a, b) ==
  \/ a.timestamp < b.timestamp
  \/ a.timestamp = b.timestamp /\ a.precedence < b.precedence
  \/ a.timestamp = b.timestamp /\ a.precedence = b.precedence /\ a.id < b.id

\* C29: in iteration t every queued event with timestamp t is applied, in
\* (timestamp, precedence, insertion) order, before the algorithm is
\* consulted and before a pilot is applied for t; no event is applied before
\* the iteration of its timestamp, and none with timestamp t is queued when
\* the iteration becomes t + 1.
C29_EventsDrainedInOrderBeforeScheduling ==
  /\ [](/\ \A i \in 1..Len(sim.event_history) :
             \A j \in 1..Len(sim.event_history) :
               i < j => AppliedBefore(sim.event_history[i], sim.event_history[j])
        /\ \A i \in 1..Len(sim.event_history) : \A j \in 1..Len(queue) :
             AppliedBefore(sim.event_history[i], queue[j])
        /\ \A j \in 1..Len(queue) :
             /\ queue[j].timestamp >= sim.iteration
             /\ (sim.status = "running" /\ sim.phase \notin {"check", "drain"})
                  => queue[j].timestamp > sim.iteration)
  /\ [][Len(sim'.event_history) > Len(sim.event_history) =>
          /\ sim.phase = "drain"
          /\ sim'.event_history = Append(sim.event_history, Head(queue))
          /\ Head(queue).timestamp = sim.iteration]_vars

\* The algorithm is consulted in iteration 1 after the Unplug and the Plugin
\* of that iteration were applied, the Unplug first although it was inserted
\* after the Plugin.
C29_Witness ==
  /\ sim.status = "running"
  /\ sim.phase = "algorithm"
  /\ sim.iteration = 1
  /\ Len(sim.event_history) = 3
  /\ sim.event_history[2].type = "Unplug"
  /\ sim.event_history[3].type = "Plugin"
  /\ sim.event_history[2].timestamp = 1
  /\ sim.event_history[3].timestamp = 1
  /\ sim.event_history[2].id > sim.event_history[3].id

\* C30: the algorithm is invoked in every iteration in which an event was
\* applied and otherwise at least once in max_recompute iterations; in an
\* iteration without invocation the pilots applied are those of the next
\* column of the schedule returned last.
C30_InvokedOnChangeOrReplayedColumnShifted ==
  (sim.status = "running"
     /\ sim.phase \in {"validate", "apply", "record", "advance"}) =>
    LET invoked == sim.schedule_iteration = sim.iteration
        k == sim.iteration - sim.schedule_iteration + 1
        due == { id \in DOMAIN sim.schedule : k <= Len(sim.schedule[id]) }
    IN /\ sim.schedule_iteration # NoSchedule
       /\ (\E i \in 1..Len(sim.event_history) :
             sim.event_history[i].timestamp = sim.iteration) => invoked
       /\ sim.iteration - sim.schedule_iteration < sim.max_recompute
       /\ (~invoked /\ sim.phase \in {"apply", "record", "advance"}) =>
            /\ DOMAIN sim.proposed = due
            /\ \A id \in due : sim.proposed[id] = sim.schedule[id][k]
       /\ (~invoked /\ sim.phase \in {"record", "advance"}) =>
            \A id \in due :
              valid_rate(net._EVSEs[id], sim.schedule[id][k]) =>
                net._EVSEs[id].current_pilot = sim.schedule[id][k]

\* Iteration 1 reuses the schedule returned at iteration 0: the second
\* pilot of the free station, not the first, has been applied.
C30_Witness ==
  /\ sim.status = "running"
  /\ sim.phase = "record"
  /\ sim.iteration = 1
  /\ sim.schedule_iteration = 0
  /\ "PS-002" \in DOMAIN sim.schedule
  /\ sim.schedule["PS-002"] = <<Amp(16), Amp(8)>>
  /\ net._EVSEs["PS-002"].current_pilot = Amp(8)

\* The largest aggregate current among the recorded columns, 0 if none.
RECURSIVE MaxAggregate(_)
MaxAggregate(columns) ==
  IF columns = <<>> THEN 0
  ELSE LET rest == MaxAggregate(SubSeq(columns, 1, Len(columns) - 1))
           last == columns[Len(columns)]
           total == IF Len(last) = 2 THEN last[1] + last[2] ELSE 0
       IN IF total > rest THEN total ELSE rest

\* C31: after every iteration the peak is the maximum of the realized
\* aggregate currents of the iterations completed so far, and the peak never
\* decreases.
C31_PeakIsRunningMaximum ==
  /\ [](sim.phase # "record" => sim.peak = MaxAggregate(sim.charging_rates))
  /\ [][sim'.peak >= sim.peak]_vars

\* An iteration is complete whose aggregate current is below the peak
\* reached in an earlier one.
C31_Witness ==
  /\ sim.status = "running"
  /\ sim.phase = "advance"
  /\ sim.peak = FullRate
  /\ Len(sim.charging_rates) = sim.iteration + 1
  /\ sim.charging_rates[sim.iteration + 1] = <<0, 0>>

\* C32: pilot_signals and charging_rates are append-only: an iteration
\* records exactly one column in each, the requested pilots and the realized
\* rates, the iteration counter then advances by exactly 1, and no column of
\* an earlier iteration is changed afterwards.
C32_RecordsAreAppendOnly ==
  /\ [](/\ Len(sim.charging_rates) = Len(sim.pilot_signals)
        /\ Len(sim.pilot_signals) \in {sim.iteration, sim.iteration + 1})
  /\ [][/\ SubSeq(sim'.pilot_signals, 1, Len(sim.pilot_signals))
             = sim.pilot_signals
        /\ SubSeq(sim'.charging_rates, 1, Len(sim.charging_rates))
             = sim.charging_rates
        /\ Len(sim'.pilot_signals) > Len(sim.pilot_signals) =>
             /\ Len(sim'.pilot_signals) = sim.iteration + 1
             /\ sim'.iteration = sim.iteration
             /\ \A i \in 1..Len(net.station_ids) :
                  /\ sim'.pilot_signals[sim.iteration + 1][i] =
                       (IF net.station_ids[i] \in DOMAIN sim.proposed
                        THEN sim.proposed[net.station_ids[i]] ELSE 0)
                  /\ sim'.charging_rates[sim.iteration + 1][i] =
                       (IF net._EVSEs[net.station_ids[i]].ev = NoEV THEN 0
                        ELSE evs[net._EVSEs[net.station_ids[i]].ev]
                               .current_charging_rate)
        /\ sim'.iteration # sim.iteration =>
             /\ sim'.iteration = sim.iteration + 1
             /\ Len(sim.pilot_signals) = sim.iteration + 1
             /\ sim'.pilot_signals = sim.pilot_signals
             /\ sim'.charging_rates = sim.charging_rates]_vars

\* Two iterations are complete, with different columns of requested pilots
\* and a realized rate that is not 0.
C32_Witness ==
  /\ sim.status = "running"
  /\ sim.phase = "check"
  /\ sim.iteration = 2
  /\ Len(sim.pilot_signals) = 2
  /\ sim.pilot_signals[1] = <<0, Amp(16)>>
  /\ sim.pilot_signals[2] = <<0, Amp(8)>>
  /\ sim.charging_rates[1] = <<FullRate, 0>>

\* The completion entries logged so far for a session.
Completions(e) ==
  { i \in 1..Len(test.events) :
      /\ test.events[i].description = "EV finished charging"
      /\ test.events[i].session_id = e }

\* C33: the completion entry of an EV is logged exactly once, in the step
\* in which the EV first becomes fully charged, and never again; the EV that
\* requests one period's energy at 32 A, arrives at 0, departs at 2 and is
\* given pilot 32 at iteration 0 is fully charged at iteration 1, with
\* exactly one completion entry.
C33_CompletionLoggedExactlyOnce ==
  /\ [](\A e \in DOMAIN evs :
          /\ Cardinality(Completions(e)) =
               (IF fully_charged(evs[e]) THEN 1 ELSE 0)
          /\ (/\ test.iteration >= 1
              /\ evs[e].requested_energy = Amp(32) * Voltage * Period
              /\ evs[e].arrival = 0
              /\ evs[e].departure = 2
              /\ test.charging_data[e] # <<>>
              /\ test.charging_data[e][1].time = 0
              /\ test.charging_data[e][1].pilot_signal = Amp(32))
               => fully_charged(evs[e]))
  /\ [][\A e \in DOMAIN evs :
          /\ (~fully_charged(evs[e]) /\ fully_charged(evs'[e])) =>
               /\ Len(test'.events) > Len(test.events)
               /\ \E i \in (Len(test.events) + 1)..Len(test'.events) :
                    /\ test'.events[i].description = "EV finished charging"
                    /\ test'.events[i].session_id = e
                    /\ test'.events[i].time = test.iteration
          /\ fully_charged(evs[e]) =>
               \A i \in (Len(test.events) + 1)..Len(test'.events) :
                 test'.events[i].session_id # e]_vars

\* Iteration 1 of the end-to-end case: the EV was given pilot 32 at
\* iteration 0, is fully charged and has one completion entry; a later step
\* has been taken too.
C33_Witness ==
  /\ test.err = "none"
  /\ test.iteration = 2
  /\ evs[1].requested_energy = Amp(32) * Voltage * Period
  /\ test.charging_data[1] # <<>>
  /\ test.charging_data[1][1].pilot_signal = Amp(32)
  /\ fully_charged(evs[1])
  /\ test.finishing_time[1] = 0
  /\ Cardinality(Completions(1)) = 1

\* An EV is due at iteration t: it has arrived, has not departed and is not
\* fully charged.
Due(e, t) ==
  /\ evs[e].arrival <= t
  /\ t < evs[e].departure
  /\ ~fully_charged(evs[e])

\* C39: a call step(pilot_signals, t) that returns has charged exactly the
\* EVs with arrival <= t < departure that were not fully charged, each
\* exactly once, and no call changes any other EV: an EV is not charged
\* before its arrival, at or after its departure, or once fully charged.
C39_StepChargesExactlyTheActiveEVs ==
  [][\A e \in DOMAIN evs :
       /\ ~Due(e, test.iteration) =>
            /\ evs'[e] = evs[e]
            /\ test'.charging_data[e] = test.charging_data[e]
       /\ (Due(e, test.iteration) /\ test'.err = "none") =>
            /\ Len(test'.charging_data[e]) = Len(test.charging_data[e]) + 1
            /\ SubSeq(test'.charging_data[e], 1, Len(test.charging_data[e]))
                 = test.charging_data[e]
            /\ LET sample == test'.charging_data[e][Len(test'.charging_data[e])]
               IN /\ sample.time = test.iteration
                  /\ e \in DOMAIN test'.actual_charging_rates
                  /\ test'.actual_charging_rates[e] = sample.charge_rate
                  /\ evs'[e].energy_delivered =
                       evs[e].energy_delivered
                         + sample.charge_rate * Voltage * Period]_vars

\* Three steps were taken: the first EV was charged at 0 and at 1, is not
\* fully charged and was left alone at 2, its departure; the second was
\* left alone at 0, before its arrival, charged at 1 and left alone at 2,
\* fully charged.
C39_Witness ==
  /\ test.err = "none"
  /\ test.iteration = 3
  /\ ~fully_charged(evs[1])
  /\ Len(test.charging_data[1]) = 2
  /\ test.charging_data[1][2].time = 1
  /\ evs[1].energy_delivered = FullRate * Voltage * Period
  /\ evs[2].arrival = 1
  /\ fully_charged(evs[2])
  /\ Len(test.charging_data[2]) = 1
  /\ test.charging_data[2][1].time = 1

\* The steps the engine can take in the current state, the return of the
\* algorithm aside.
EnabledEngineSteps ==
  { name \in {"Check", "DrainEvent", "DrainDone", "Snapshot", "Invoke",
              "Reuse", "Validate", "Apply", "Record", "Advance"} :
      CASE name = "Check" -> ENABLED Check
        [] name = "DrainEvent" -> ENABLED DrainEvent
        [] name = "DrainDone" -> ENABLED DrainDone
        [] name = "Snapshot" -> ENABLED Snapshot
        [] name = "Invoke" -> ENABLED Invoke
        [] name = "Reuse" -> ENABLED Reuse
        [] name = "Validate" -> ENABLED Validate
        [] name = "Apply" -> ENABLED Apply
        [] name = "Record" -> ENABLED Record
        [] name = "Advance" -> ENABLED Advance }

\* C34: the run is deterministic.  The queued events are in one strict
\* order, that of (timestamp, precedence, insertion); the event applied is
\* always the first of them; and wherever the engine is to act exactly one
\* step is open to it, so that a run is fixed by the network, the sequence
\* of insertions and what the algorithm does.
C34_RunIsDeterministic ==
  /\ [](/\ \A i \in 1..Len(queue) : \A j \in 1..Len(queue) :
             i < j => AppliedBefore(queue[i], queue[j])
        /\ (sim.status = "running" /\ sim.phase # "algorithm") =>
             Cardinality(EnabledEngineSteps) = 1
        /\ (sim.status # "running" \/ sim.phase = "algorithm") =>
             EnabledEngineSteps = {})
  /\ [][Len(sim'.event_history) > Len(sim.event_history) =>
          /\ sim'.event_history = Append(sim.event_history, Head(queue))
          /\ queue' = Tail(queue)]_vars

\* A run has ended after four events, two of them of the same iteration,
\* and after a pilot was sent.
C34_Witness ==
  /\ sim.status = "stopped"
  /\ Len(sim.event_history) = 4
  /\ sim.event_history[2].timestamp = sim.event_history[3].timestamp
  /\ \E t \in 1..Len(sim.pilot_signals) : sim.pilot_signals[t][2] = Amp(16)

\* C35: an EV rebuilt by from_dict from its to_dict has the arrival,
\* departure, estimated_departure, requested_energy, station_id, session_id,
\* energy_delivered and current_charging_rate it had; two records that name
\* a Battery by the same id get one Battery, built once.
C35_RoundTripKeepsEVAndSharesBattery ==
  [][(op'.name \in {"from_dict", "from_registry"}) =>
       /\ evs'[TheEV].arrival = evs[TheEV].arrival
       /\ evs'[TheEV].departure = evs[TheEV].departure
       /\ evs'[TheEV].estimated_departure = evs[TheEV].estimated_departure
       /\ evs'[TheEV].requested_energy = evs[TheEV].requested_energy
       /\ evs'[TheEV].station_id = evs[TheEV].station_id
       /\ evs'[TheEV].session_id = evs[TheEV].session_id
       /\ evs'[TheEV].energy_delivered = evs[TheEV].energy_delivered
       /\ evs'[TheEV].current_charging_rate = evs[TheEV].current_charging_rate
       /\ op'.name = "from_registry" =>
            /\ op'.ret.first = op'.ret.second
            /\ Len(op'.ret.objects) = 1
            /\ op'.ret.second_ev = evs'[TheEV]]_vars

\* An EV that was charged, with an estimated departure other than its
\* departure, has been loaded twice from records that share its battery.
C35_Witness ==
  /\ op.name = "from_registry"
  /\ op.ret.first = op.ret.second
  /\ evs[TheEV].energy_delivered > 0
  /\ evs[TheEV].current_charging_rate > 0
  /\ evs[TheEV].estimated_departure # evs[TheEV].departure

\* The per-station inputs of the call a all have the length of station_ids
\* (an argument left out takes its length from station_ids).
StationInputsAgree(a) ==
  LET n == Len(a.station_ids)
  IN /\ \A r \in DOMAIN a.constraint_matrix : Len(a.constraint_matrix[r]) = n
     /\ Len(a.phases) = n
     /\ Len(a.voltages) = n
     /\ Len(a.max_pilot) = n
     /\ Len(a.min_pilot) = n
     /\ a.allowable_pilots.given => Len(a.allowable_pilots.value) = n
     /\ a.is_continuous.given => Len(a.is_continuous.value) = n

\* The per-constraint inputs of the call a all have the number of rows of
\* the constraint matrix.
ConstraintInputsAgree(a) ==
  /\ Len(a.constraint_limits) = Len(a.constraint_matrix)
  /\ Len(a.constraint_ids) = Len(a.constraint_matrix)

\* C36: constructing an InfrastructureInfo raises ValueError exactly when the
\* per-station inputs (matrix columns, phases, voltages, station_ids,
\* max_pilot, min_pilot, allowable_pilots, is_continuous) differ in length or
\* the per-constraint inputs (matrix rows, constraint_limits, constraint_ids)
\* differ in length; otherwise the object is constructed, and every vector
\* of a constructed object has the length of its matrix dimension.
C36_ConstructionFailsExactlyOnInconsistentShapes ==
  (info # <<>> /\ info.kind = "InfrastructureInfo") =>
    /\ info.self.err = "ValueError"
         <=> ~(StationInputsAgree(info.args) /\ ConstraintInputsAgree(info.args))
    /\ info.self.err \in {"ValueError", "none"}
    /\ info.self.err = "none" =>
         LET self == info.self
             M == Len(self.constraint_matrix)
             N == Len(self.station_ids)
         IN /\ \A r \in 1..M : Len(self.constraint_matrix[r]) = N
            /\ Len(self.constraint_limits) = M
            /\ Len(self.constraint_ids) = M
            /\ Len(self.phases) = N
            /\ Len(self.voltages) = N
            /\ Len(self.max_pilot) = N
            /\ Len(self.min_pilot) = N
            /\ Len(self.allowable_pilots) = N
            /\ Len(self.is_continuous) = N

\* A call whose per-station inputs agree and whose constraint_ids are one
\* short of the rows of the matrix has raised ValueError.
C36_Witness ==
  /\ info # <<>>
  /\ info.kind = "InfrastructureInfo"
  /\ StationInputsAgree(info.args)
  /\ Len(info.args.constraint_limits) = Len(info.args.constraint_matrix)
  /\ Len(info.args.constraint_ids) + 1 = Len(info.args.constraint_matrix)
  /\ info.self.err = "ValueError"

C37_SessionTimesEnforcedAtConstruction ==
  (info # <<>> /\ info.kind = "SessionInfo") =>
    LET a == info.args
        self == info.self
    IN /\ a.departure <= a.arrival => self.err = "ValueError"
       /\ (a.estimated_departure # NoDeparture
             /\ a.estimated_departure <= a.arrival) => self.err = "ValueError"
       /\ self.err = "none" =>
            /\ self.arrival = a.arrival
            /\ self.departure = a.departure
            /\ self.departure > self.arrival
            /\ self.estimated_departure > self.arrival
            /\ self.estimated_departure =
                 IF a.estimated_departure = NoDeparture THEN a.departure
                 ELSE a.estimated_departure

\* A call with departure after arrival, scalar rate bounds and an
\* estimated_departure equal to the arrival has raised ValueError.
C37_Witness ==
  /\ info # <<>>
  /\ info.kind = "SessionInfo"
  /\ info.args.departure > info.args.arrival
  /\ info.args.estimated_departure = info.args.arrival
  /\ info.args.min_rates.scalar
  /\ info.args.max_rates.scalar
  /\ info.self.err = "ValueError"

\* C38: SessionInfo(...) with valid times accepts lists min_rates and
\* max_rates of length departure - arrival, whatever current_time is, and
\* stores them unchanged; a scalar bound is stored as one entry per
\* remaining period.
C38_RateListsOfSessionLengthAccepted ==
  (/\ info # <<>>
   /\ info.kind = "SessionInfo"
   /\ info.args.departure > info.args.arrival
   /\ info.args.estimated_departure = NoDeparture) =>
    LET a == info.args
        self == info.self
        length == a.departure - a.arrival
        remaining == IF a.current_time <= a.arrival THEN length
                     ELSE IF a.current_time >= a.departure THEN 0
                     ELSE a.departure - a.current_time
        Fits(rates) == rates.scalar \/ Len(rates.value) = length
        Stored(rates, array) ==
          IF rates.scalar
          THEN /\ Len(array) = remaining
               /\ \A i \in 1..remaining : array[i] = rates.value
          ELSE array = rates.value
    IN (Fits(a.min_rates) /\ Fits(a.max_rates)) =>
         /\ self.err = "none"
         /\ Stored(a.min_rates, self.min_rates)
         /\ Stored(a.max_rates, self.max_rates)

====
